---------------------------- MODULE Spec2Model ----------------------------
(***************************************************************************)
(* Model of the vex linear-algebra library: the fixed-size square matrix   *)
(* types Matrix2/Matrix3/Matrix4 (src/src/matrix*.rs) and their older      *)
(* generation Mat2/Mat3/Mat4 (src/src/mat*.rs).                            *)
(*                                                                         *)
(* An f32 is modelled as an exact rational n/d (d > 0, lowest terms) or    *)
(* one of the three IEEE-754 special values:                               *)
(*     NaN = 0/0      +infinity = 1/0      -infinity = -1/0                *)
(* Arithmetic on finite values is exact (rounding and overflow of finite   *)
(* values are abstracted away); the special values follow the IEEE rules   *)
(* (x/0, inf - inf, 0 * inf, NaN propagation, NaN # NaN).                  *)
(*                                                                         *)
(* A matrix is its flat column-major array `m`, a tuple of 4, 9 or 16      *)
(* values; Rust's 0-based index k is index k+1 of the tuple.               *)
(***************************************************************************)
EXTENDS Integers, Sequences, FiniteSets, TLC

(***************************************************************************)
(* f32 values and the primitive f32 operations used by the library         *)
(***************************************************************************)
F(i) == [n |-> i, d |-> 1]

NaN == [n |-> 0, d |-> 0]

PosInf == [n |-> 1, d |-> 0]

NegInf == [n |-> -1, d |-> 0]

Zero == F(0)

One == F(1)

IsNaN(x) == x.d = 0 /\ x.n = 0

IsInfinite(x) == x.d = 0 /\ x.n # 0

IsFinite(x) == x.d # 0

Abs(i) == IF i < 0 THEN -i ELSE i

Sgn(i) == IF i < 0 THEN -1 ELSE IF i > 0 THEN 1 ELSE 0

RECURSIVE GCD(_, _)
GCD(a, b) == IF b = 0 THEN a ELSE GCD(b, a % b)

\* the rational num/den (den > 0) in lowest terms
Norm(num, den) ==
    LET g == GCD(Abs(num), den)
    IN  [n |-> num \div g, d |-> den \div g]

\* unary minus on f32
FNeg(x) == [n |-> -x.n, d |-> x.d]

\* f32 * f32
FMul(x, y) ==
    IF IsNaN(x) \/ IsNaN(y) THEN NaN
    ELSE IF x.d = 0 \/ y.d = 0
         THEN (IF x.n = 0 \/ y.n = 0 THEN NaN
               ELSE [n |-> Sgn(x.n) * Sgn(y.n), d |-> 0])
    ELSE IF x.d = 1 /\ y.d = 1 THEN [n |-> x.n * y.n, d |-> 1]
    ELSE LET g1 == GCD(Abs(x.n), y.d)
             g2 == GCD(Abs(y.n), x.d)
         IN  [n |-> (x.n \div g1) * (y.n \div g2),
              d |-> (x.d \div g2) * (y.d \div g1)]

\* f32 + f32
FAdd(x, y) ==
    IF IsNaN(x) \/ IsNaN(y) THEN NaN
    ELSE IF x.d = 0 /\ y.d = 0 THEN (IF x.n = y.n THEN x ELSE NaN)
    ELSE IF x.d = 0 THEN x
    ELSE IF y.d = 0 THEN y
    ELSE IF x.d = 1 /\ y.d = 1 THEN [n |-> x.n + y.n, d |-> 1]
    ELSE LET g == GCD(x.d, y.d)
         IN  Norm(x.n * (y.d \div g) + y.n * (x.d \div g), (x.d \div g) * y.d)

\* f32 - f32
FSub(x, y) == FAdd(x, FNeg(y))

\* f32 / f32
FDiv(x, y) ==
    IF IsNaN(x) \/ IsNaN(y) THEN NaN
    ELSE IF x.d = 0 /\ y.d = 0 THEN NaN
    ELSE IF x.d = 0 THEN [n |-> x.n * (IF y.n < 0 THEN -1 ELSE 1), d |-> 0]
    ELSE IF y.d = 0 THEN Zero
    ELSE IF y.n = 0 THEN (IF x.n = 0 THEN NaN ELSE [n |-> Sgn(x.n), d |-> 0])
    ELSE FMul(x, IF y.n > 0 THEN [n |-> y.d, d |-> y.n]
                            ELSE [n |-> -y.d, d |-> -y.n])

\* f32 == f32 : never true when a NaN is involved
FEq(x, y) == ~IsNaN(x) /\ ~IsNaN(y) /\ x = y

\* f32 != f32 : the negation of ==, so true whenever a NaN is involved
FNe(x, y) == ~FEq(x, y)

\* `let name = value;` followed by the statements that read the local
Let(value, Rest(_)) == Rest(value)

\* the three-statement exchange `let temp = m[i]; m[i] = m[j]; m[j] = temp;`
\* (i, j are the Rust 0-based indices)
Swap(m, i, j) == [m EXCEPT ![i + 1] = m[j + 1], ![j + 1] = m[i + 1]]

(***************************************************************************)
(* f32::cos and f32::sin.  An angle is modelled by the point of the unit   *)
(* circle it denotes, a pair of exact rationals (cos, sin) with            *)
(* cos^2 + sin^2 = 1.                                                      *)
(***************************************************************************)
cos(angle) == angle.cos

sin(angle) == angle.sin

(***************************************************************************)
(* Vector constructors used by transform_point                             *)
(***************************************************************************)
Vector2_make(x, y) ==
    [x |-> x, y |-> y]

Vector3_make(x, y, z) ==
    [x |-> x, y |-> y, z |-> z]

Vector4_make(x, y, z, w) ==
    [x |-> x, y |-> y, z |-> z, w |-> w]

(***************************************************************************)
(* Matrix2  (src/src/matrix2.rs)                                           *)
(***************************************************************************)
Matrix2_new ==
    <<F(1), F(0), F(0), F(1)>>

Matrix2_make(m11, m21, m12, m22) ==
    <<m11, m21, m12, m22>>

\* mRC(): the index of self.m (counted from 1) that mRC reads
Matrix2_m ==
    [m11 |-> 1, m21 |-> 2,
     m12 |-> 3, m22 |-> 4]

\* set_mRC(v): the index of self.m (counted from 1) that set_mRC writes
Matrix2_set_m ==
    [m11 |-> 1, m21 |-> 2,
     m12 |-> 3, m22 |-> 4]

Matrix2_transpose(self) ==
    Swap(self, 1, 2)

Matrix2_determinant(self) ==
    FSub(FMul(self[Matrix2_m.m11], self[Matrix2_m.m22]),
                     FMul(self[Matrix2_m.m12], self[Matrix2_m.m21]))

\* inverse(&mut self) -> bool : the returned flag and the matrix left in self
\* Matrix2::inverse, but a refused call resets the matrix to the identity
Matrix2_inverse_resets(self) ==
    Let(Matrix2_determinant(self), LAMBDA det :
    IF FEq(det, F(0)) THEN [ret |-> FALSE, m |-> Matrix2_new]
    ELSE Let(FDiv(F(1), det), LAMBDA inv_det :
        LET m11 ==
                FMul(self[Matrix2_m.m22], inv_det)
            m21 ==
                FMul(FNeg(self[Matrix2_m.m21]), inv_det)
            m12 ==
                FMul(FNeg(self[Matrix2_m.m12]), inv_det)
            m22 ==
                FMul(self[Matrix2_m.m11], inv_det)
        IN  [ret |-> TRUE,
             m |-> [self EXCEPT
                      ![Matrix2_set_m.m11] = m11,
                      ![Matrix2_set_m.m21] = m21,
                      ![Matrix2_set_m.m12] = m12,
                      ![Matrix2_set_m.m22] = m22]]))

Matrix2_inverse(self) ==
    Let(Matrix2_determinant(self), LAMBDA det :
    IF FEq(det, F(0)) THEN [ret |-> FALSE, m |-> self]
    ELSE Let(FDiv(F(1), det), LAMBDA inv_det :
        LET m11 ==
                FMul(self[Matrix2_m.m22], inv_det)
            m21 ==
                FMul(FNeg(self[Matrix2_m.m21]), inv_det)
            m12 ==
                FMul(FNeg(self[Matrix2_m.m12]), inv_det)
            m22 ==
                FMul(self[Matrix2_m.m11], inv_det)
        IN  [ret |-> TRUE,
             m |-> [self EXCEPT
                      ![Matrix2_set_m.m11] = m11,
                      ![Matrix2_set_m.m21] = m21,
                      ![Matrix2_set_m.m12] = m12,
                      ![Matrix2_set_m.m22] = m22]]))

\* Matrix2 * Matrix2, but the m11 sum reads rhs.m12 where it should read rhs.m21
Matrix2_mul_index(self, rhs) ==
    LET m11 ==
            FAdd(FMul(self[Matrix2_m.m11], rhs[Matrix2_m.m11]),
                     FMul(self[Matrix2_m.m12], rhs[Matrix2_m.m12]))
        m21 ==
            FAdd(FMul(self[Matrix2_m.m21], rhs[Matrix2_m.m11]),
                     FMul(self[Matrix2_m.m22], rhs[Matrix2_m.m21]))
        m12 ==
            FAdd(FMul(self[Matrix2_m.m11], rhs[Matrix2_m.m12]),
                     FMul(self[Matrix2_m.m12], rhs[Matrix2_m.m22]))
        m22 ==
            FAdd(FMul(self[Matrix2_m.m21], rhs[Matrix2_m.m12]),
                     FMul(self[Matrix2_m.m22], rhs[Matrix2_m.m22]))
    IN  Matrix2_make(m11, m21, m12, m22)

Matrix2_mul(self, rhs) ==
    LET m11 ==
            FAdd(FMul(self[Matrix2_m.m11], rhs[Matrix2_m.m11]),
                     FMul(self[Matrix2_m.m12], rhs[Matrix2_m.m21]))
        m21 ==
            FAdd(FMul(self[Matrix2_m.m21], rhs[Matrix2_m.m11]),
                     FMul(self[Matrix2_m.m22], rhs[Matrix2_m.m21]))
        m12 ==
            FAdd(FMul(self[Matrix2_m.m11], rhs[Matrix2_m.m12]),
                     FMul(self[Matrix2_m.m12], rhs[Matrix2_m.m22]))
        m22 ==
            FAdd(FMul(self[Matrix2_m.m21], rhs[Matrix2_m.m12]),
                     FMul(self[Matrix2_m.m22], rhs[Matrix2_m.m22]))
    IN  Matrix2_make(m11, m21, m12, m22)

Matrix2_eq(self, rhs) ==
    \A i \in 1..4 : ~FNe(self[i], rhs[i])

Matrix2_transform_point_Vector2(self, point) ==
    Vector2_make(FAdd(FMul(self[Matrix2_m.m11], point.x),
                                  FMul(self[Matrix2_m.m12], point.y)),
                             FAdd(FMul(self[Matrix2_m.m21], point.x),
                                  FMul(self[Matrix2_m.m22], point.y)))

(***************************************************************************)
(* Matrix3  (src/src/matrix3.rs)                                           *)
(***************************************************************************)
Matrix3_IDENTITY ==
    <<F(1), F(0), F(0), F(0), F(1), F(0), F(0), F(0), F(1)>>

Matrix3_new ==
    Matrix3_IDENTITY

Matrix3_make(m11, m21, m31, m12, m22, m32, m13, m23, m33) ==
    <<m11, m21, m31, m12, m22, m32, m13, m23, m33>>

\* mRC(): the index of self.m (counted from 1) that mRC reads
Matrix3_m ==
    [m11 |-> 1, m21 |-> 2, m31 |-> 3,
     m12 |-> 4, m22 |-> 5, m32 |-> 6,
     m13 |-> 7, m23 |-> 8, m33 |-> 9]

\* set_mRC(v): the index of self.m (counted from 1) that set_mRC writes
Matrix3_set_m ==
    [m11 |-> 1, m21 |-> 2, m31 |-> 3,
     m12 |-> 4, m22 |-> 5, m32 |-> 6,
     m13 |-> 7, m23 |-> 8, m33 |-> 9]

\* Matrix3::transpose, but the first swap exchanges m[1] with m[2]
Matrix3_transpose_index(self) ==
    Swap(Swap(Swap(self, 1, 2), 5, 7), 2, 6)

Matrix3_transpose(self) ==
    Swap(Swap(Swap(self, 1, 3), 5, 7), 2, 6)

Matrix3_determinant(self) ==
    FAdd(FSub(FMul(self[Matrix3_m.m11],
                               FSub(FMul(self[Matrix3_m.m22],
                                         self[Matrix3_m.m33]),
                                    FMul(self[Matrix3_m.m23],
                                         self[Matrix3_m.m32]))),
                          FMul(self[Matrix3_m.m12],
                               FSub(FMul(self[Matrix3_m.m21],
                                         self[Matrix3_m.m33]),
                                    FMul(self[Matrix3_m.m23],
                                         self[Matrix3_m.m31])))),
                     FMul(self[Matrix3_m.m13],
                          FSub(FMul(self[Matrix3_m.m21], self[Matrix3_m.m32]),
                               FMul(self[Matrix3_m.m22], self[Matrix3_m.m31]))))

\* inverse(&mut self) -> bool : the returned flag and the matrix left in self
\* Matrix3::inverse, but the m21 and m12 cofactors are stored untransposed
Matrix3_inverse_untransposed(self) ==
    Let(Matrix3_determinant(self), LAMBDA det :
    IF FEq(det, F(0)) THEN [ret |-> FALSE, m |-> self]
    ELSE Let(FDiv(F(1), det), LAMBDA inv_det :
        LET m11 ==
                FMul(Matrix2_determinant(Matrix2_make(self[Matrix3_m.m22], self[Matrix3_m.m23], self[Matrix3_m.m32], self[Matrix3_m.m33])),
                     inv_det)
            m21 ==
                FMul(Matrix2_determinant(Matrix2_make(self[Matrix3_m.m23], self[Matrix3_m.m21], self[Matrix3_m.m33], self[Matrix3_m.m31])),
                     inv_det)
            m31 ==
                FMul(Matrix2_determinant(Matrix2_make(self[Matrix3_m.m21], self[Matrix3_m.m22], self[Matrix3_m.m31], self[Matrix3_m.m32])),
                     inv_det)
            m12 ==
                FMul(Matrix2_determinant(Matrix2_make(self[Matrix3_m.m13], self[Matrix3_m.m12], self[Matrix3_m.m33], self[Matrix3_m.m32])),
                     inv_det)
            m22 ==
                FMul(Matrix2_determinant(Matrix2_make(self[Matrix3_m.m11], self[Matrix3_m.m13], self[Matrix3_m.m31], self[Matrix3_m.m33])),
                     inv_det)
            m32 ==
                FMul(Matrix2_determinant(Matrix2_make(self[Matrix3_m.m12], self[Matrix3_m.m11], self[Matrix3_m.m32], self[Matrix3_m.m31])),
                     inv_det)
            m13 ==
                FMul(Matrix2_determinant(Matrix2_make(self[Matrix3_m.m12], self[Matrix3_m.m13], self[Matrix3_m.m22], self[Matrix3_m.m23])),
                     inv_det)
            m23 ==
                FMul(Matrix2_determinant(Matrix2_make(self[Matrix3_m.m13], self[Matrix3_m.m11], self[Matrix3_m.m23], self[Matrix3_m.m21])),
                     inv_det)
            m33 ==
                FMul(Matrix2_determinant(Matrix2_make(self[Matrix3_m.m11], self[Matrix3_m.m12], self[Matrix3_m.m21], self[Matrix3_m.m22])),
                     inv_det)
        IN  [ret |-> TRUE,
             m |-> [self EXCEPT
                      ![Matrix3_set_m.m11] = m11,
                      ![Matrix3_set_m.m12] = m21,
                      ![Matrix3_set_m.m31] = m31,
                      ![Matrix3_set_m.m21] = m12,
                      ![Matrix3_set_m.m22] = m22,
                      ![Matrix3_set_m.m32] = m32,
                      ![Matrix3_set_m.m13] = m13,
                      ![Matrix3_set_m.m23] = m23,
                      ![Matrix3_set_m.m33] = m33]]))

Matrix3_inverse(self) ==
    Let(Matrix3_determinant(self), LAMBDA det :
    IF FEq(det, F(0)) THEN [ret |-> FALSE, m |-> self]
    ELSE Let(FDiv(F(1), det), LAMBDA inv_det :
        LET m11 ==
                FMul(Matrix2_determinant(Matrix2_make(self[Matrix3_m.m22], self[Matrix3_m.m23], self[Matrix3_m.m32], self[Matrix3_m.m33])),
                     inv_det)
            m21 ==
                FMul(Matrix2_determinant(Matrix2_make(self[Matrix3_m.m23], self[Matrix3_m.m21], self[Matrix3_m.m33], self[Matrix3_m.m31])),
                     inv_det)
            m31 ==
                FMul(Matrix2_determinant(Matrix2_make(self[Matrix3_m.m21], self[Matrix3_m.m22], self[Matrix3_m.m31], self[Matrix3_m.m32])),
                     inv_det)
            m12 ==
                FMul(Matrix2_determinant(Matrix2_make(self[Matrix3_m.m13], self[Matrix3_m.m12], self[Matrix3_m.m33], self[Matrix3_m.m32])),
                     inv_det)
            m22 ==
                FMul(Matrix2_determinant(Matrix2_make(self[Matrix3_m.m11], self[Matrix3_m.m13], self[Matrix3_m.m31], self[Matrix3_m.m33])),
                     inv_det)
            m32 ==
                FMul(Matrix2_determinant(Matrix2_make(self[Matrix3_m.m12], self[Matrix3_m.m11], self[Matrix3_m.m32], self[Matrix3_m.m31])),
                     inv_det)
            m13 ==
                FMul(Matrix2_determinant(Matrix2_make(self[Matrix3_m.m12], self[Matrix3_m.m13], self[Matrix3_m.m22], self[Matrix3_m.m23])),
                     inv_det)
            m23 ==
                FMul(Matrix2_determinant(Matrix2_make(self[Matrix3_m.m13], self[Matrix3_m.m11], self[Matrix3_m.m23], self[Matrix3_m.m21])),
                     inv_det)
            m33 ==
                FMul(Matrix2_determinant(Matrix2_make(self[Matrix3_m.m11], self[Matrix3_m.m12], self[Matrix3_m.m21], self[Matrix3_m.m22])),
                     inv_det)
        IN  [ret |-> TRUE,
             m |-> [self EXCEPT
                      ![Matrix3_set_m.m11] = m11,
                      ![Matrix3_set_m.m21] = m21,
                      ![Matrix3_set_m.m31] = m31,
                      ![Matrix3_set_m.m12] = m12,
                      ![Matrix3_set_m.m22] = m22,
                      ![Matrix3_set_m.m32] = m32,
                      ![Matrix3_set_m.m13] = m13,
                      ![Matrix3_set_m.m23] = m23,
                      ![Matrix3_set_m.m33] = m33]]))

Matrix3_mul(self, rhs) ==
    LET m11 ==
            FAdd(FAdd(FMul(self[Matrix3_m.m11], rhs[Matrix3_m.m11]),
                          FMul(self[Matrix3_m.m12], rhs[Matrix3_m.m21])),
                     FMul(self[Matrix3_m.m13], rhs[Matrix3_m.m31]))
        m21 ==
            FAdd(FAdd(FMul(self[Matrix3_m.m21], rhs[Matrix3_m.m11]),
                          FMul(self[Matrix3_m.m22], rhs[Matrix3_m.m21])),
                     FMul(self[Matrix3_m.m23], rhs[Matrix3_m.m31]))
        m31 ==
            FAdd(FAdd(FMul(self[Matrix3_m.m31], rhs[Matrix3_m.m11]),
                          FMul(self[Matrix3_m.m32], rhs[Matrix3_m.m21])),
                     FMul(self[Matrix3_m.m33], rhs[Matrix3_m.m31]))
        m12 ==
            FAdd(FAdd(FMul(self[Matrix3_m.m11], rhs[Matrix3_m.m12]),
                          FMul(self[Matrix3_m.m12], rhs[Matrix3_m.m22])),
                     FMul(self[Matrix3_m.m13], rhs[Matrix3_m.m32]))
        m22 ==
            FAdd(FAdd(FMul(self[Matrix3_m.m21], rhs[Matrix3_m.m12]),
                          FMul(self[Matrix3_m.m22], rhs[Matrix3_m.m22])),
                     FMul(self[Matrix3_m.m23], rhs[Matrix3_m.m32]))
        m32 ==
            FAdd(FAdd(FMul(self[Matrix3_m.m31], rhs[Matrix3_m.m12]),
                          FMul(self[Matrix3_m.m32], rhs[Matrix3_m.m22])),
                     FMul(self[Matrix3_m.m33], rhs[Matrix3_m.m32]))
        m13 ==
            FAdd(FAdd(FMul(self[Matrix3_m.m11], rhs[Matrix3_m.m13]),
                          FMul(self[Matrix3_m.m12], rhs[Matrix3_m.m23])),
                     FMul(self[Matrix3_m.m13], rhs[Matrix3_m.m33]))
        m23 ==
            FAdd(FAdd(FMul(self[Matrix3_m.m21], rhs[Matrix3_m.m13]),
                          FMul(self[Matrix3_m.m22], rhs[Matrix3_m.m23])),
                     FMul(self[Matrix3_m.m23], rhs[Matrix3_m.m33]))
        m33 ==
            FAdd(FAdd(FMul(self[Matrix3_m.m31], rhs[Matrix3_m.m13]),
                          FMul(self[Matrix3_m.m32], rhs[Matrix3_m.m23])),
                     FMul(self[Matrix3_m.m33], rhs[Matrix3_m.m33]))
    IN  Matrix3_make(m11, m21, m31, m12, m22, m32, m13, m23, m33)

Matrix3_eq(self, rhs) ==
    \A i \in 1..9 : ~FNe(self[i], rhs[i])

\* Matrix3::transform_point(Vector2), but the x translation m13 is left out
Matrix3_transform_point_Vector2_linear(self, point) ==
    Vector2_make(FAdd(FAdd(FMul(self[Matrix3_m.m11], point.x),
                                       FMul(self[Matrix3_m.m12], point.y)),
                                  F(0)),
                             FAdd(FAdd(FMul(self[Matrix3_m.m21], point.x),
                                       FMul(self[Matrix3_m.m22], point.y)),
                                  self[Matrix3_m.m23]))

Matrix3_transform_point_Vector2(self, point) ==
    Vector2_make(FAdd(FAdd(FMul(self[Matrix3_m.m11], point.x),
                                       FMul(self[Matrix3_m.m12], point.y)),
                                  self[Matrix3_m.m13]),
                             FAdd(FAdd(FMul(self[Matrix3_m.m21], point.x),
                                       FMul(self[Matrix3_m.m22], point.y)),
                                  self[Matrix3_m.m23]))

Matrix3_transform_point_Vector3(self, point) ==
    Vector3_make(FAdd(FAdd(FMul(self[Matrix3_m.m11], point.x),
                                       FMul(self[Matrix3_m.m12], point.y)),
                                  FMul(self[Matrix3_m.m13], point.z)),
                             FAdd(FAdd(FMul(self[Matrix3_m.m21], point.x),
                                       FMul(self[Matrix3_m.m22], point.y)),
                                  FMul(self[Matrix3_m.m23], point.z)),
                             FAdd(FAdd(FMul(self[Matrix3_m.m31], point.x),
                                       FMul(self[Matrix3_m.m32], point.y)),
                                  FMul(self[Matrix3_m.m33], point.z)))

(***************************************************************************)
(* Matrix4  (src/src/matrix4.rs)                                           *)
(***************************************************************************)
Matrix4_IDENTITY ==
    <<F(1), F(0), F(0), F(0), F(0), F(1), F(0), F(0), F(0), F(0), F(1), F(0), F(0), F(0), F(0), F(1)>>

Matrix4_new ==
    Matrix4_IDENTITY

Matrix4_make(m11, m21, m31, m41, m12, m22, m32, m42, m13, m23, m33, m43, m14, m24, m34, m44) ==
    <<m11, m21, m31, m41, m12, m22, m32, m42, m13, m23, m33, m43, m14, m24, m34, m44>>

\* mRC(): the index of self.m (counted from 1) that mRC reads
Matrix4_m ==
    [m11 |-> 1, m21 |-> 2, m31 |-> 3, m41 |-> 4,
     m12 |-> 5, m22 |-> 6, m32 |-> 7, m42 |-> 8,
     m13 |-> 9, m23 |-> 10, m33 |-> 11, m43 |-> 12,
     m14 |-> 13, m24 |-> 14, m34 |-> 15, m44 |-> 16]

\* set_mRC(v): the index of self.m (counted from 1) that set_mRC writes
Matrix4_set_m ==
    [m11 |-> 1, m21 |-> 2, m31 |-> 3, m41 |-> 4,
     m12 |-> 5, m22 |-> 6, m32 |-> 7, m42 |-> 8,
     m13 |-> 9, m23 |-> 10, m33 |-> 11, m43 |-> 12,
     m14 |-> 13, m24 |-> 14, m34 |-> 15, m44 |-> 16]

\* Matrix4::transpose, but the first swap exchanges m[1] with m[3]
Matrix4_transpose_index(self) ==
    Swap(Swap(Swap(Swap(Swap(Swap(self, 1, 3), 2, 8), 6, 9), 7, 13), 11, 14), 3, 12)

Matrix4_transpose(self) ==
    Swap(Swap(Swap(Swap(Swap(Swap(self, 1, 4), 2, 8), 6, 9), 7, 13), 11, 14), 3, 12)

\* Matrix4::determinant, but the first-row terms are added without alternating signs
Matrix4_determinant_unsigned(self) ==
    LET a ==
              FMul(Matrix3_determinant(Matrix3_make(self[Matrix4_m.m22], self[Matrix4_m.m23], self[Matrix4_m.m24], self[Matrix4_m.m32], self[Matrix4_m.m33], self[Matrix4_m.m34], self[Matrix4_m.m42], self[Matrix4_m.m43], self[Matrix4_m.m44])),
                     self[Matrix4_m.m11])
        b ==
              FMul(Matrix3_determinant(Matrix3_make(self[Matrix4_m.m21], self[Matrix4_m.m23], self[Matrix4_m.m24], self[Matrix4_m.m31], self[Matrix4_m.m33], self[Matrix4_m.m34], self[Matrix4_m.m41], self[Matrix4_m.m43], self[Matrix4_m.m44])),
                     self[Matrix4_m.m12])
        c ==
              FMul(Matrix3_determinant(Matrix3_make(self[Matrix4_m.m21], self[Matrix4_m.m22], self[Matrix4_m.m24], self[Matrix4_m.m31], self[Matrix4_m.m32], self[Matrix4_m.m34], self[Matrix4_m.m41], self[Matrix4_m.m42], self[Matrix4_m.m44])),
                     self[Matrix4_m.m13])
        d ==
              FMul(Matrix3_determinant(Matrix3_make(self[Matrix4_m.m21], self[Matrix4_m.m22], self[Matrix4_m.m23], self[Matrix4_m.m31], self[Matrix4_m.m32], self[Matrix4_m.m33], self[Matrix4_m.m41], self[Matrix4_m.m42], self[Matrix4_m.m43])),
                     self[Matrix4_m.m14])
    IN  FAdd(FAdd(FAdd(a, b), c), d)

Matrix4_determinant(self) ==
    LET a ==
              FMul(Matrix3_determinant(Matrix3_make(self[Matrix4_m.m22], self[Matrix4_m.m23], self[Matrix4_m.m24], self[Matrix4_m.m32], self[Matrix4_m.m33], self[Matrix4_m.m34], self[Matrix4_m.m42], self[Matrix4_m.m43], self[Matrix4_m.m44])),
                     self[Matrix4_m.m11])
        b ==
              FMul(Matrix3_determinant(Matrix3_make(self[Matrix4_m.m21], self[Matrix4_m.m23], self[Matrix4_m.m24], self[Matrix4_m.m31], self[Matrix4_m.m33], self[Matrix4_m.m34], self[Matrix4_m.m41], self[Matrix4_m.m43], self[Matrix4_m.m44])),
                     self[Matrix4_m.m12])
        c ==
              FMul(Matrix3_determinant(Matrix3_make(self[Matrix4_m.m21], self[Matrix4_m.m22], self[Matrix4_m.m24], self[Matrix4_m.m31], self[Matrix4_m.m32], self[Matrix4_m.m34], self[Matrix4_m.m41], self[Matrix4_m.m42], self[Matrix4_m.m44])),
                     self[Matrix4_m.m13])
        d ==
              FMul(Matrix3_determinant(Matrix3_make(self[Matrix4_m.m21], self[Matrix4_m.m22], self[Matrix4_m.m23], self[Matrix4_m.m31], self[Matrix4_m.m32], self[Matrix4_m.m33], self[Matrix4_m.m41], self[Matrix4_m.m42], self[Matrix4_m.m43])),
                     self[Matrix4_m.m14])
    IN  FSub(FAdd(FSub(a, b), c), d)

\* inverse(&mut self) -> bool : the returned flag and the matrix left in self
\* Matrix4::inverse, but the first term of the m21 cofactor has lost its sign
Matrix4_inverse_sign(self) ==
    Let(Matrix4_determinant(self), LAMBDA det :
    IF FEq(det, F(0)) THEN [ret |-> FALSE, m |-> self]
    ELSE Let(FDiv(F(1), det), LAMBDA inv_det :
        LET pre_m11 ==
                FSub(FAdd(FAdd(FSub(FSub(FMul(FMul(self[Matrix4_m.m22], self[Matrix4_m.m33]),
                                              self[Matrix4_m.m44]),
                                         FMul(FMul(self[Matrix4_m.m22], self[Matrix4_m.m43]),
                                              self[Matrix4_m.m34])),
                                    FMul(FMul(self[Matrix4_m.m23],
                                              self[Matrix4_m.m32]),
                                         self[Matrix4_m.m44])),
                               FMul(FMul(self[Matrix4_m.m23],
                                         self[Matrix4_m.m42]),
                                    self[Matrix4_m.m34])),
                          FMul(FMul(self[Matrix4_m.m24], self[Matrix4_m.m32]),
                               self[Matrix4_m.m43])),
                     FMul(FMul(self[Matrix4_m.m24], self[Matrix4_m.m42]),
                          self[Matrix4_m.m33]))
            pre_m21 ==
                FAdd(FSub(FSub(FAdd(FAdd(FMul(FMul(self[Matrix4_m.m21], self[Matrix4_m.m33]),
                                              self[Matrix4_m.m44]),
                                         FMul(FMul(self[Matrix4_m.m21], self[Matrix4_m.m43]),
                                              self[Matrix4_m.m34])),
                                    FMul(FMul(self[Matrix4_m.m23],
                                              self[Matrix4_m.m31]),
                                         self[Matrix4_m.m44])),
                               FMul(FMul(self[Matrix4_m.m23],
                                         self[Matrix4_m.m41]),
                                    self[Matrix4_m.m34])),
                          FMul(FMul(self[Matrix4_m.m24], self[Matrix4_m.m31]),
                               self[Matrix4_m.m43])),
                     FMul(FMul(self[Matrix4_m.m24], self[Matrix4_m.m41]),
                          self[Matrix4_m.m33]))
            pre_m31 ==
                FSub(FAdd(FAdd(FSub(FSub(FMul(FMul(self[Matrix4_m.m21], self[Matrix4_m.m32]),
                                              self[Matrix4_m.m44]),
                                         FMul(FMul(self[Matrix4_m.m21], self[Matrix4_m.m42]),
                                              self[Matrix4_m.m34])),
                                    FMul(FMul(self[Matrix4_m.m22],
                                              self[Matrix4_m.m31]),
                                         self[Matrix4_m.m44])),
                               FMul(FMul(self[Matrix4_m.m22],
                                         self[Matrix4_m.m41]),
                                    self[Matrix4_m.m34])),
                          FMul(FMul(self[Matrix4_m.m24], self[Matrix4_m.m31]),
                               self[Matrix4_m.m42])),
                     FMul(FMul(self[Matrix4_m.m24], self[Matrix4_m.m41]),
                          self[Matrix4_m.m32]))
            pre_m41 ==
                FAdd(FSub(FSub(FAdd(FAdd(FMul(FMul(FNeg(self[Matrix4_m.m21]), self[Matrix4_m.m32]),
                                              self[Matrix4_m.m43]),
                                         FMul(FMul(self[Matrix4_m.m21], self[Matrix4_m.m42]),
                                              self[Matrix4_m.m33])),
                                    FMul(FMul(self[Matrix4_m.m22],
                                              self[Matrix4_m.m31]),
                                         self[Matrix4_m.m43])),
                               FMul(FMul(self[Matrix4_m.m22],
                                         self[Matrix4_m.m41]),
                                    self[Matrix4_m.m33])),
                          FMul(FMul(self[Matrix4_m.m23], self[Matrix4_m.m31]),
                               self[Matrix4_m.m42])),
                     FMul(FMul(self[Matrix4_m.m23], self[Matrix4_m.m41]),
                          self[Matrix4_m.m32]))
            pre_m12 ==
                FAdd(FSub(FSub(FAdd(FAdd(FMul(FMul(FNeg(self[Matrix4_m.m12]), self[Matrix4_m.m33]),
                                              self[Matrix4_m.m44]),
                                         FMul(FMul(self[Matrix4_m.m12], self[Matrix4_m.m43]),
                                              self[Matrix4_m.m34])),
                                    FMul(FMul(self[Matrix4_m.m13],
                                              self[Matrix4_m.m32]),
                                         self[Matrix4_m.m44])),
                               FMul(FMul(self[Matrix4_m.m13],
                                         self[Matrix4_m.m42]),
                                    self[Matrix4_m.m34])),
                          FMul(FMul(self[Matrix4_m.m14], self[Matrix4_m.m32]),
                               self[Matrix4_m.m43])),
                     FMul(FMul(self[Matrix4_m.m14], self[Matrix4_m.m42]),
                          self[Matrix4_m.m33]))
            pre_m22 ==
                FSub(FAdd(FAdd(FSub(FSub(FMul(FMul(self[Matrix4_m.m11], self[Matrix4_m.m33]),
                                              self[Matrix4_m.m44]),
                                         FMul(FMul(self[Matrix4_m.m11], self[Matrix4_m.m43]),
                                              self[Matrix4_m.m34])),
                                    FMul(FMul(self[Matrix4_m.m13],
                                              self[Matrix4_m.m31]),
                                         self[Matrix4_m.m44])),
                               FMul(FMul(self[Matrix4_m.m13],
                                         self[Matrix4_m.m41]),
                                    self[Matrix4_m.m34])),
                          FMul(FMul(self[Matrix4_m.m14], self[Matrix4_m.m31]),
                               self[Matrix4_m.m43])),
                     FMul(FMul(self[Matrix4_m.m14], self[Matrix4_m.m41]),
                          self[Matrix4_m.m33]))
            pre_m32 ==
                FAdd(FSub(FSub(FAdd(FAdd(FMul(FMul(FNeg(self[Matrix4_m.m11]), self[Matrix4_m.m32]),
                                              self[Matrix4_m.m44]),
                                         FMul(FMul(self[Matrix4_m.m11], self[Matrix4_m.m42]),
                                              self[Matrix4_m.m34])),
                                    FMul(FMul(self[Matrix4_m.m12],
                                              self[Matrix4_m.m31]),
                                         self[Matrix4_m.m44])),
                               FMul(FMul(self[Matrix4_m.m12],
                                         self[Matrix4_m.m41]),
                                    self[Matrix4_m.m34])),
                          FMul(FMul(self[Matrix4_m.m14], self[Matrix4_m.m31]),
                               self[Matrix4_m.m42])),
                     FMul(FMul(self[Matrix4_m.m14], self[Matrix4_m.m41]),
                          self[Matrix4_m.m32]))
            pre_m42 ==
                FSub(FAdd(FAdd(FSub(FSub(FMul(FMul(self[Matrix4_m.m11], self[Matrix4_m.m32]),
                                              self[Matrix4_m.m43]),
                                         FMul(FMul(self[Matrix4_m.m11], self[Matrix4_m.m42]),
                                              self[Matrix4_m.m33])),
                                    FMul(FMul(self[Matrix4_m.m12],
                                              self[Matrix4_m.m31]),
                                         self[Matrix4_m.m43])),
                               FMul(FMul(self[Matrix4_m.m12],
                                         self[Matrix4_m.m41]),
                                    self[Matrix4_m.m33])),
                          FMul(FMul(self[Matrix4_m.m13], self[Matrix4_m.m31]),
                               self[Matrix4_m.m42])),
                     FMul(FMul(self[Matrix4_m.m13], self[Matrix4_m.m41]),
                          self[Matrix4_m.m32]))
            pre_m13 ==
                FSub(FAdd(FAdd(FSub(FSub(FMul(FMul(self[Matrix4_m.m12], self[Matrix4_m.m23]),
                                              self[Matrix4_m.m44]),
                                         FMul(FMul(self[Matrix4_m.m12], self[Matrix4_m.m43]),
                                              self[Matrix4_m.m24])),
                                    FMul(FMul(self[Matrix4_m.m13],
                                              self[Matrix4_m.m22]),
                                         self[Matrix4_m.m44])),
                               FMul(FMul(self[Matrix4_m.m13],
                                         self[Matrix4_m.m42]),
                                    self[Matrix4_m.m24])),
                          FMul(FMul(self[Matrix4_m.m14], self[Matrix4_m.m22]),
                               self[Matrix4_m.m43])),
                     FMul(FMul(self[Matrix4_m.m14], self[Matrix4_m.m42]),
                          self[Matrix4_m.m23]))
            pre_m23 ==
                FAdd(FSub(FSub(FAdd(FAdd(FMul(FMul(FNeg(self[Matrix4_m.m11]), self[Matrix4_m.m23]),
                                              self[Matrix4_m.m44]),
                                         FMul(FMul(self[Matrix4_m.m11], self[Matrix4_m.m43]),
                                              self[Matrix4_m.m24])),
                                    FMul(FMul(self[Matrix4_m.m13],
                                              self[Matrix4_m.m21]),
                                         self[Matrix4_m.m44])),
                               FMul(FMul(self[Matrix4_m.m13],
                                         self[Matrix4_m.m41]),
                                    self[Matrix4_m.m24])),
                          FMul(FMul(self[Matrix4_m.m14], self[Matrix4_m.m21]),
                               self[Matrix4_m.m43])),
                     FMul(FMul(self[Matrix4_m.m14], self[Matrix4_m.m41]),
                          self[Matrix4_m.m23]))
            pre_m33 ==
                FSub(FAdd(FAdd(FSub(FSub(FMul(FMul(self[Matrix4_m.m11], self[Matrix4_m.m22]),
                                              self[Matrix4_m.m44]),
                                         FMul(FMul(self[Matrix4_m.m11], self[Matrix4_m.m42]),
                                              self[Matrix4_m.m24])),
                                    FMul(FMul(self[Matrix4_m.m12],
                                              self[Matrix4_m.m21]),
                                         self[Matrix4_m.m44])),
                               FMul(FMul(self[Matrix4_m.m12],
                                         self[Matrix4_m.m41]),
                                    self[Matrix4_m.m24])),
                          FMul(FMul(self[Matrix4_m.m14], self[Matrix4_m.m21]),
                               self[Matrix4_m.m42])),
                     FMul(FMul(self[Matrix4_m.m14], self[Matrix4_m.m41]),
                          self[Matrix4_m.m22]))
            pre_m43 ==
                FAdd(FSub(FSub(FAdd(FAdd(FMul(FMul(FNeg(self[Matrix4_m.m11]), self[Matrix4_m.m22]),
                                              self[Matrix4_m.m43]),
                                         FMul(FMul(self[Matrix4_m.m11], self[Matrix4_m.m42]),
                                              self[Matrix4_m.m23])),
                                    FMul(FMul(self[Matrix4_m.m12],
                                              self[Matrix4_m.m21]),
                                         self[Matrix4_m.m43])),
                               FMul(FMul(self[Matrix4_m.m12],
                                         self[Matrix4_m.m41]),
                                    self[Matrix4_m.m23])),
                          FMul(FMul(self[Matrix4_m.m13], self[Matrix4_m.m21]),
                               self[Matrix4_m.m42])),
                     FMul(FMul(self[Matrix4_m.m13], self[Matrix4_m.m41]),
                          self[Matrix4_m.m22]))
            pre_m14 ==
                FAdd(FSub(FSub(FAdd(FAdd(FMul(FMul(FNeg(self[Matrix4_m.m12]), self[Matrix4_m.m23]),
                                              self[Matrix4_m.m34]),
                                         FMul(FMul(self[Matrix4_m.m12], self[Matrix4_m.m33]),
                                              self[Matrix4_m.m24])),
                                    FMul(FMul(self[Matrix4_m.m13],
                                              self[Matrix4_m.m22]),
                                         self[Matrix4_m.m34])),
                               FMul(FMul(self[Matrix4_m.m13],
                                         self[Matrix4_m.m32]),
                                    self[Matrix4_m.m24])),
                          FMul(FMul(self[Matrix4_m.m14], self[Matrix4_m.m22]),
                               self[Matrix4_m.m33])),
                     FMul(FMul(self[Matrix4_m.m14], self[Matrix4_m.m32]),
                          self[Matrix4_m.m23]))
            pre_m24 ==
                FSub(FAdd(FAdd(FSub(FSub(FMul(FMul(self[Matrix4_m.m11], self[Matrix4_m.m23]),
                                              self[Matrix4_m.m34]),
                                         FMul(FMul(self[Matrix4_m.m11], self[Matrix4_m.m33]),
                                              self[Matrix4_m.m24])),
                                    FMul(FMul(self[Matrix4_m.m13],
                                              self[Matrix4_m.m21]),
                                         self[Matrix4_m.m34])),
                               FMul(FMul(self[Matrix4_m.m13],
                                         self[Matrix4_m.m31]),
                                    self[Matrix4_m.m24])),
                          FMul(FMul(self[Matrix4_m.m14], self[Matrix4_m.m21]),
                               self[Matrix4_m.m33])),
                     FMul(FMul(self[Matrix4_m.m14], self[Matrix4_m.m31]),
                          self[Matrix4_m.m23]))
            pre_m34 ==
                FAdd(FSub(FSub(FAdd(FAdd(FMul(FMul(FNeg(self[Matrix4_m.m11]), self[Matrix4_m.m22]),
                                              self[Matrix4_m.m34]),
                                         FMul(FMul(self[Matrix4_m.m11], self[Matrix4_m.m32]),
                                              self[Matrix4_m.m24])),
                                    FMul(FMul(self[Matrix4_m.m12],
                                              self[Matrix4_m.m21]),
                                         self[Matrix4_m.m34])),
                               FMul(FMul(self[Matrix4_m.m12],
                                         self[Matrix4_m.m31]),
                                    self[Matrix4_m.m24])),
                          FMul(FMul(self[Matrix4_m.m14], self[Matrix4_m.m21]),
                               self[Matrix4_m.m32])),
                     FMul(FMul(self[Matrix4_m.m14], self[Matrix4_m.m31]),
                          self[Matrix4_m.m22]))
            pre_m44 ==
                FSub(FAdd(FAdd(FSub(FSub(FMul(FMul(self[Matrix4_m.m11], self[Matrix4_m.m22]),
                                              self[Matrix4_m.m33]),
                                         FMul(FMul(self[Matrix4_m.m11], self[Matrix4_m.m32]),
                                              self[Matrix4_m.m23])),
                                    FMul(FMul(self[Matrix4_m.m12],
                                              self[Matrix4_m.m21]),
                                         self[Matrix4_m.m33])),
                               FMul(FMul(self[Matrix4_m.m12],
                                         self[Matrix4_m.m31]),
                                    self[Matrix4_m.m23])),
                          FMul(FMul(self[Matrix4_m.m13], self[Matrix4_m.m21]),
                               self[Matrix4_m.m32])),
                     FMul(FMul(self[Matrix4_m.m13], self[Matrix4_m.m31]),
                          self[Matrix4_m.m22]))
        IN  [ret |-> TRUE,
             m |-> [self EXCEPT
                      ![Matrix4_set_m.m11] = FMul(pre_m11, inv_det),
                      ![Matrix4_set_m.m21] = FMul(pre_m21, inv_det),
                      ![Matrix4_set_m.m31] = FMul(pre_m31, inv_det),
                      ![Matrix4_set_m.m41] = FMul(pre_m41, inv_det),
                      ![Matrix4_set_m.m12] = FMul(pre_m12, inv_det),
                      ![Matrix4_set_m.m22] = FMul(pre_m22, inv_det),
                      ![Matrix4_set_m.m32] = FMul(pre_m32, inv_det),
                      ![Matrix4_set_m.m42] = FMul(pre_m42, inv_det),
                      ![Matrix4_set_m.m13] = FMul(pre_m13, inv_det),
                      ![Matrix4_set_m.m23] = FMul(pre_m23, inv_det),
                      ![Matrix4_set_m.m33] = FMul(pre_m33, inv_det),
                      ![Matrix4_set_m.m43] = FMul(pre_m43, inv_det),
                      ![Matrix4_set_m.m14] = FMul(pre_m14, inv_det),
                      ![Matrix4_set_m.m24] = FMul(pre_m24, inv_det),
                      ![Matrix4_set_m.m34] = FMul(pre_m34, inv_det),
                      ![Matrix4_set_m.m44] = FMul(pre_m44, inv_det)]]))

Matrix4_inverse(self) ==
    Let(Matrix4_determinant(self), LAMBDA det :
    IF FEq(det, F(0)) THEN [ret |-> FALSE, m |-> self]
    ELSE Let(FDiv(F(1), det), LAMBDA inv_det :
        LET pre_m11 ==
                FSub(FAdd(FAdd(FSub(FSub(FMul(FMul(self[Matrix4_m.m22], self[Matrix4_m.m33]),
                                              self[Matrix4_m.m44]),
                                         FMul(FMul(self[Matrix4_m.m22], self[Matrix4_m.m43]),
                                              self[Matrix4_m.m34])),
                                    FMul(FMul(self[Matrix4_m.m23],
                                              self[Matrix4_m.m32]),
                                         self[Matrix4_m.m44])),
                               FMul(FMul(self[Matrix4_m.m23],
                                         self[Matrix4_m.m42]),
                                    self[Matrix4_m.m34])),
                          FMul(FMul(self[Matrix4_m.m24], self[Matrix4_m.m32]),
                               self[Matrix4_m.m43])),
                     FMul(FMul(self[Matrix4_m.m24], self[Matrix4_m.m42]),
                          self[Matrix4_m.m33]))
            pre_m21 ==
                FAdd(FSub(FSub(FAdd(FAdd(FMul(FMul(FNeg(self[Matrix4_m.m21]), self[Matrix4_m.m33]),
                                              self[Matrix4_m.m44]),
                                         FMul(FMul(self[Matrix4_m.m21], self[Matrix4_m.m43]),
                                              self[Matrix4_m.m34])),
                                    FMul(FMul(self[Matrix4_m.m23],
                                              self[Matrix4_m.m31]),
                                         self[Matrix4_m.m44])),
                               FMul(FMul(self[Matrix4_m.m23],
                                         self[Matrix4_m.m41]),
                                    self[Matrix4_m.m34])),
                          FMul(FMul(self[Matrix4_m.m24], self[Matrix4_m.m31]),
                               self[Matrix4_m.m43])),
                     FMul(FMul(self[Matrix4_m.m24], self[Matrix4_m.m41]),
                          self[Matrix4_m.m33]))
            pre_m31 ==
                FSub(FAdd(FAdd(FSub(FSub(FMul(FMul(self[Matrix4_m.m21], self[Matrix4_m.m32]),
                                              self[Matrix4_m.m44]),
                                         FMul(FMul(self[Matrix4_m.m21], self[Matrix4_m.m42]),
                                              self[Matrix4_m.m34])),
                                    FMul(FMul(self[Matrix4_m.m22],
                                              self[Matrix4_m.m31]),
                                         self[Matrix4_m.m44])),
                               FMul(FMul(self[Matrix4_m.m22],
                                         self[Matrix4_m.m41]),
                                    self[Matrix4_m.m34])),
                          FMul(FMul(self[Matrix4_m.m24], self[Matrix4_m.m31]),
                               self[Matrix4_m.m42])),
                     FMul(FMul(self[Matrix4_m.m24], self[Matrix4_m.m41]),
                          self[Matrix4_m.m32]))
            pre_m41 ==
                FAdd(FSub(FSub(FAdd(FAdd(FMul(FMul(FNeg(self[Matrix4_m.m21]), self[Matrix4_m.m32]),
                                              self[Matrix4_m.m43]),
                                         FMul(FMul(self[Matrix4_m.m21], self[Matrix4_m.m42]),
                                              self[Matrix4_m.m33])),
                                    FMul(FMul(self[Matrix4_m.m22],
                                              self[Matrix4_m.m31]),
                                         self[Matrix4_m.m43])),
                               FMul(FMul(self[Matrix4_m.m22],
                                         self[Matrix4_m.m41]),
                                    self[Matrix4_m.m33])),
                          FMul(FMul(self[Matrix4_m.m23], self[Matrix4_m.m31]),
                               self[Matrix4_m.m42])),
                     FMul(FMul(self[Matrix4_m.m23], self[Matrix4_m.m41]),
                          self[Matrix4_m.m32]))
            pre_m12 ==
                FAdd(FSub(FSub(FAdd(FAdd(FMul(FMul(FNeg(self[Matrix4_m.m12]), self[Matrix4_m.m33]),
                                              self[Matrix4_m.m44]),
                                         FMul(FMul(self[Matrix4_m.m12], self[Matrix4_m.m43]),
                                              self[Matrix4_m.m34])),
                                    FMul(FMul(self[Matrix4_m.m13],
                                              self[Matrix4_m.m32]),
                                         self[Matrix4_m.m44])),
                               FMul(FMul(self[Matrix4_m.m13],
                                         self[Matrix4_m.m42]),
                                    self[Matrix4_m.m34])),
                          FMul(FMul(self[Matrix4_m.m14], self[Matrix4_m.m32]),
                               self[Matrix4_m.m43])),
                     FMul(FMul(self[Matrix4_m.m14], self[Matrix4_m.m42]),
                          self[Matrix4_m.m33]))
            pre_m22 ==
                FSub(FAdd(FAdd(FSub(FSub(FMul(FMul(self[Matrix4_m.m11], self[Matrix4_m.m33]),
                                              self[Matrix4_m.m44]),
                                         FMul(FMul(self[Matrix4_m.m11], self[Matrix4_m.m43]),
                                              self[Matrix4_m.m34])),
                                    FMul(FMul(self[Matrix4_m.m13],
                                              self[Matrix4_m.m31]),
                                         self[Matrix4_m.m44])),
                               FMul(FMul(self[Matrix4_m.m13],
                                         self[Matrix4_m.m41]),
                                    self[Matrix4_m.m34])),
                          FMul(FMul(self[Matrix4_m.m14], self[Matrix4_m.m31]),
                               self[Matrix4_m.m43])),
                     FMul(FMul(self[Matrix4_m.m14], self[Matrix4_m.m41]),
                          self[Matrix4_m.m33]))
            pre_m32 ==
                FAdd(FSub(FSub(FAdd(FAdd(FMul(FMul(FNeg(self[Matrix4_m.m11]), self[Matrix4_m.m32]),
                                              self[Matrix4_m.m44]),
                                         FMul(FMul(self[Matrix4_m.m11], self[Matrix4_m.m42]),
                                              self[Matrix4_m.m34])),
                                    FMul(FMul(self[Matrix4_m.m12],
                                              self[Matrix4_m.m31]),
                                         self[Matrix4_m.m44])),
                               FMul(FMul(self[Matrix4_m.m12],
                                         self[Matrix4_m.m41]),
                                    self[Matrix4_m.m34])),
                          FMul(FMul(self[Matrix4_m.m14], self[Matrix4_m.m31]),
                               self[Matrix4_m.m42])),
                     FMul(FMul(self[Matrix4_m.m14], self[Matrix4_m.m41]),
                          self[Matrix4_m.m32]))
            pre_m42 ==
                FSub(FAdd(FAdd(FSub(FSub(FMul(FMul(self[Matrix4_m.m11], self[Matrix4_m.m32]),
                                              self[Matrix4_m.m43]),
                                         FMul(FMul(self[Matrix4_m.m11], self[Matrix4_m.m42]),
                                              self[Matrix4_m.m33])),
                                    FMul(FMul(self[Matrix4_m.m12],
                                              self[Matrix4_m.m31]),
                                         self[Matrix4_m.m43])),
                               FMul(FMul(self[Matrix4_m.m12],
                                         self[Matrix4_m.m41]),
                                    self[Matrix4_m.m33])),
                          FMul(FMul(self[Matrix4_m.m13], self[Matrix4_m.m31]),
                               self[Matrix4_m.m42])),
                     FMul(FMul(self[Matrix4_m.m13], self[Matrix4_m.m41]),
                          self[Matrix4_m.m32]))
            pre_m13 ==
                FSub(FAdd(FAdd(FSub(FSub(FMul(FMul(self[Matrix4_m.m12], self[Matrix4_m.m23]),
                                              self[Matrix4_m.m44]),
                                         FMul(FMul(self[Matrix4_m.m12], self[Matrix4_m.m43]),
                                              self[Matrix4_m.m24])),
                                    FMul(FMul(self[Matrix4_m.m13],
                                              self[Matrix4_m.m22]),
                                         self[Matrix4_m.m44])),
                               FMul(FMul(self[Matrix4_m.m13],
                                         self[Matrix4_m.m42]),
                                    self[Matrix4_m.m24])),
                          FMul(FMul(self[Matrix4_m.m14], self[Matrix4_m.m22]),
                               self[Matrix4_m.m43])),
                     FMul(FMul(self[Matrix4_m.m14], self[Matrix4_m.m42]),
                          self[Matrix4_m.m23]))
            pre_m23 ==
                FAdd(FSub(FSub(FAdd(FAdd(FMul(FMul(FNeg(self[Matrix4_m.m11]), self[Matrix4_m.m23]),
                                              self[Matrix4_m.m44]),
                                         FMul(FMul(self[Matrix4_m.m11], self[Matrix4_m.m43]),
                                              self[Matrix4_m.m24])),
                                    FMul(FMul(self[Matrix4_m.m13],
                                              self[Matrix4_m.m21]),
                                         self[Matrix4_m.m44])),
                               FMul(FMul(self[Matrix4_m.m13],
                                         self[Matrix4_m.m41]),
                                    self[Matrix4_m.m24])),
                          FMul(FMul(self[Matrix4_m.m14], self[Matrix4_m.m21]),
                               self[Matrix4_m.m43])),
                     FMul(FMul(self[Matrix4_m.m14], self[Matrix4_m.m41]),
                          self[Matrix4_m.m23]))
            pre_m33 ==
                FSub(FAdd(FAdd(FSub(FSub(FMul(FMul(self[Matrix4_m.m11], self[Matrix4_m.m22]),
                                              self[Matrix4_m.m44]),
                                         FMul(FMul(self[Matrix4_m.m11], self[Matrix4_m.m42]),
                                              self[Matrix4_m.m24])),
                                    FMul(FMul(self[Matrix4_m.m12],
                                              self[Matrix4_m.m21]),
                                         self[Matrix4_m.m44])),
                               FMul(FMul(self[Matrix4_m.m12],
                                         self[Matrix4_m.m41]),
                                    self[Matrix4_m.m24])),
                          FMul(FMul(self[Matrix4_m.m14], self[Matrix4_m.m21]),
                               self[Matrix4_m.m42])),
                     FMul(FMul(self[Matrix4_m.m14], self[Matrix4_m.m41]),
                          self[Matrix4_m.m22]))
            pre_m43 ==
                FAdd(FSub(FSub(FAdd(FAdd(FMul(FMul(FNeg(self[Matrix4_m.m11]), self[Matrix4_m.m22]),
                                              self[Matrix4_m.m43]),
                                         FMul(FMul(self[Matrix4_m.m11], self[Matrix4_m.m42]),
                                              self[Matrix4_m.m23])),
                                    FMul(FMul(self[Matrix4_m.m12],
                                              self[Matrix4_m.m21]),
                                         self[Matrix4_m.m43])),
                               FMul(FMul(self[Matrix4_m.m12],
                                         self[Matrix4_m.m41]),
                                    self[Matrix4_m.m23])),
                          FMul(FMul(self[Matrix4_m.m13], self[Matrix4_m.m21]),
                               self[Matrix4_m.m42])),
                     FMul(FMul(self[Matrix4_m.m13], self[Matrix4_m.m41]),
                          self[Matrix4_m.m22]))
            pre_m14 ==
                FAdd(FSub(FSub(FAdd(FAdd(FMul(FMul(FNeg(self[Matrix4_m.m12]), self[Matrix4_m.m23]),
                                              self[Matrix4_m.m34]),
                                         FMul(FMul(self[Matrix4_m.m12], self[Matrix4_m.m33]),
                                              self[Matrix4_m.m24])),
                                    FMul(FMul(self[Matrix4_m.m13],
                                              self[Matrix4_m.m22]),
                                         self[Matrix4_m.m34])),
                               FMul(FMul(self[Matrix4_m.m13],
                                         self[Matrix4_m.m32]),
                                    self[Matrix4_m.m24])),
                          FMul(FMul(self[Matrix4_m.m14], self[Matrix4_m.m22]),
                               self[Matrix4_m.m33])),
                     FMul(FMul(self[Matrix4_m.m14], self[Matrix4_m.m32]),
                          self[Matrix4_m.m23]))
            pre_m24 ==
                FSub(FAdd(FAdd(FSub(FSub(FMul(FMul(self[Matrix4_m.m11], self[Matrix4_m.m23]),
                                              self[Matrix4_m.m34]),
                                         FMul(FMul(self[Matrix4_m.m11], self[Matrix4_m.m33]),
                                              self[Matrix4_m.m24])),
                                    FMul(FMul(self[Matrix4_m.m13],
                                              self[Matrix4_m.m21]),
                                         self[Matrix4_m.m34])),
                               FMul(FMul(self[Matrix4_m.m13],
                                         self[Matrix4_m.m31]),
                                    self[Matrix4_m.m24])),
                          FMul(FMul(self[Matrix4_m.m14], self[Matrix4_m.m21]),
                               self[Matrix4_m.m33])),
                     FMul(FMul(self[Matrix4_m.m14], self[Matrix4_m.m31]),
                          self[Matrix4_m.m23]))
            pre_m34 ==
                FAdd(FSub(FSub(FAdd(FAdd(FMul(FMul(FNeg(self[Matrix4_m.m11]), self[Matrix4_m.m22]),
                                              self[Matrix4_m.m34]),
                                         FMul(FMul(self[Matrix4_m.m11], self[Matrix4_m.m32]),
                                              self[Matrix4_m.m24])),
                                    FMul(FMul(self[Matrix4_m.m12],
                                              self[Matrix4_m.m21]),
                                         self[Matrix4_m.m34])),
                               FMul(FMul(self[Matrix4_m.m12],
                                         self[Matrix4_m.m31]),
                                    self[Matrix4_m.m24])),
                          FMul(FMul(self[Matrix4_m.m14], self[Matrix4_m.m21]),
                               self[Matrix4_m.m32])),
                     FMul(FMul(self[Matrix4_m.m14], self[Matrix4_m.m31]),
                          self[Matrix4_m.m22]))
            pre_m44 ==
                FSub(FAdd(FAdd(FSub(FSub(FMul(FMul(self[Matrix4_m.m11], self[Matrix4_m.m22]),
                                              self[Matrix4_m.m33]),
                                         FMul(FMul(self[Matrix4_m.m11], self[Matrix4_m.m32]),
                                              self[Matrix4_m.m23])),
                                    FMul(FMul(self[Matrix4_m.m12],
                                              self[Matrix4_m.m21]),
                                         self[Matrix4_m.m33])),
                               FMul(FMul(self[Matrix4_m.m12],
                                         self[Matrix4_m.m31]),
                                    self[Matrix4_m.m23])),
                          FMul(FMul(self[Matrix4_m.m13], self[Matrix4_m.m21]),
                               self[Matrix4_m.m32])),
                     FMul(FMul(self[Matrix4_m.m13], self[Matrix4_m.m31]),
                          self[Matrix4_m.m22]))
        IN  [ret |-> TRUE,
             m |-> [self EXCEPT
                      ![Matrix4_set_m.m11] = FMul(pre_m11, inv_det),
                      ![Matrix4_set_m.m21] = FMul(pre_m21, inv_det),
                      ![Matrix4_set_m.m31] = FMul(pre_m31, inv_det),
                      ![Matrix4_set_m.m41] = FMul(pre_m41, inv_det),
                      ![Matrix4_set_m.m12] = FMul(pre_m12, inv_det),
                      ![Matrix4_set_m.m22] = FMul(pre_m22, inv_det),
                      ![Matrix4_set_m.m32] = FMul(pre_m32, inv_det),
                      ![Matrix4_set_m.m42] = FMul(pre_m42, inv_det),
                      ![Matrix4_set_m.m13] = FMul(pre_m13, inv_det),
                      ![Matrix4_set_m.m23] = FMul(pre_m23, inv_det),
                      ![Matrix4_set_m.m33] = FMul(pre_m33, inv_det),
                      ![Matrix4_set_m.m43] = FMul(pre_m43, inv_det),
                      ![Matrix4_set_m.m14] = FMul(pre_m14, inv_det),
                      ![Matrix4_set_m.m24] = FMul(pre_m24, inv_det),
                      ![Matrix4_set_m.m34] = FMul(pre_m34, inv_det),
                      ![Matrix4_set_m.m44] = FMul(pre_m44, inv_det)]]))

\* Matrix4 * Matrix4, but the m11 sum reads rhs.m12 where it should read rhs.m21
Matrix4_mul_index(self, rhs) ==
    LET m11 ==
            FAdd(FAdd(FAdd(FMul(self[Matrix4_m.m11], rhs[Matrix4_m.m11]),
                               FMul(self[Matrix4_m.m12], rhs[Matrix4_m.m12])),
                          FMul(self[Matrix4_m.m13], rhs[Matrix4_m.m31])),
                     FMul(self[Matrix4_m.m14], rhs[Matrix4_m.m41]))
        m21 ==
            FAdd(FAdd(FAdd(FMul(self[Matrix4_m.m21], rhs[Matrix4_m.m11]),
                               FMul(self[Matrix4_m.m22], rhs[Matrix4_m.m21])),
                          FMul(self[Matrix4_m.m23], rhs[Matrix4_m.m31])),
                     FMul(self[Matrix4_m.m24], rhs[Matrix4_m.m41]))
        m31 ==
            FAdd(FAdd(FAdd(FMul(self[Matrix4_m.m31], rhs[Matrix4_m.m11]),
                               FMul(self[Matrix4_m.m32], rhs[Matrix4_m.m21])),
                          FMul(self[Matrix4_m.m33], rhs[Matrix4_m.m31])),
                     FMul(self[Matrix4_m.m34], rhs[Matrix4_m.m41]))
        m41 ==
            FAdd(FAdd(FAdd(FMul(self[Matrix4_m.m41], rhs[Matrix4_m.m11]),
                               FMul(self[Matrix4_m.m42], rhs[Matrix4_m.m21])),
                          FMul(self[Matrix4_m.m43], rhs[Matrix4_m.m31])),
                     FMul(self[Matrix4_m.m44], rhs[Matrix4_m.m41]))
        m12 ==
            FAdd(FAdd(FAdd(FMul(self[Matrix4_m.m11], rhs[Matrix4_m.m12]),
                               FMul(self[Matrix4_m.m12], rhs[Matrix4_m.m22])),
                          FMul(self[Matrix4_m.m13], rhs[Matrix4_m.m32])),
                     FMul(self[Matrix4_m.m14], rhs[Matrix4_m.m42]))
        m22 ==
            FAdd(FAdd(FAdd(FMul(self[Matrix4_m.m21], rhs[Matrix4_m.m12]),
                               FMul(self[Matrix4_m.m22], rhs[Matrix4_m.m22])),
                          FMul(self[Matrix4_m.m23], rhs[Matrix4_m.m32])),
                     FMul(self[Matrix4_m.m24], rhs[Matrix4_m.m42]))
        m32 ==
            FAdd(FAdd(FAdd(FMul(self[Matrix4_m.m31], rhs[Matrix4_m.m12]),
                               FMul(self[Matrix4_m.m32], rhs[Matrix4_m.m22])),
                          FMul(self[Matrix4_m.m33], rhs[Matrix4_m.m32])),
                     FMul(self[Matrix4_m.m34], rhs[Matrix4_m.m42]))
        m42 ==
            FAdd(FAdd(FAdd(FMul(self[Matrix4_m.m41], rhs[Matrix4_m.m12]),
                               FMul(self[Matrix4_m.m42], rhs[Matrix4_m.m22])),
                          FMul(self[Matrix4_m.m43], rhs[Matrix4_m.m32])),
                     FMul(self[Matrix4_m.m44], rhs[Matrix4_m.m42]))
        m13 ==
            FAdd(FAdd(FAdd(FMul(self[Matrix4_m.m11], rhs[Matrix4_m.m13]),
                               FMul(self[Matrix4_m.m12], rhs[Matrix4_m.m23])),
                          FMul(self[Matrix4_m.m13], rhs[Matrix4_m.m33])),
                     FMul(self[Matrix4_m.m14], rhs[Matrix4_m.m43]))
        m23 ==
            FAdd(FAdd(FAdd(FMul(self[Matrix4_m.m21], rhs[Matrix4_m.m13]),
                               FMul(self[Matrix4_m.m22], rhs[Matrix4_m.m23])),
                          FMul(self[Matrix4_m.m23], rhs[Matrix4_m.m33])),
                     FMul(self[Matrix4_m.m24], rhs[Matrix4_m.m43]))
        m33 ==
            FAdd(FAdd(FAdd(FMul(self[Matrix4_m.m31], rhs[Matrix4_m.m13]),
                               FMul(self[Matrix4_m.m32], rhs[Matrix4_m.m23])),
                          FMul(self[Matrix4_m.m33], rhs[Matrix4_m.m33])),
                     FMul(self[Matrix4_m.m34], rhs[Matrix4_m.m43]))
        m43 ==
            FAdd(FAdd(FAdd(FMul(self[Matrix4_m.m41], rhs[Matrix4_m.m13]),
                               FMul(self[Matrix4_m.m42], rhs[Matrix4_m.m23])),
                          FMul(self[Matrix4_m.m43], rhs[Matrix4_m.m33])),
                     FMul(self[Matrix4_m.m44], rhs[Matrix4_m.m43]))
        m14 ==
            FAdd(FAdd(FAdd(FMul(self[Matrix4_m.m11], rhs[Matrix4_m.m14]),
                               FMul(self[Matrix4_m.m12], rhs[Matrix4_m.m24])),
                          FMul(self[Matrix4_m.m13], rhs[Matrix4_m.m34])),
                     FMul(self[Matrix4_m.m14], rhs[Matrix4_m.m44]))
        m24 ==
            FAdd(FAdd(FAdd(FMul(self[Matrix4_m.m21], rhs[Matrix4_m.m14]),
                               FMul(self[Matrix4_m.m22], rhs[Matrix4_m.m24])),
                          FMul(self[Matrix4_m.m23], rhs[Matrix4_m.m34])),
                     FMul(self[Matrix4_m.m24], rhs[Matrix4_m.m44]))
        m34 ==
            FAdd(FAdd(FAdd(FMul(self[Matrix4_m.m31], rhs[Matrix4_m.m14]),
                               FMul(self[Matrix4_m.m32], rhs[Matrix4_m.m24])),
                          FMul(self[Matrix4_m.m33], rhs[Matrix4_m.m34])),
                     FMul(self[Matrix4_m.m34], rhs[Matrix4_m.m44]))
        m44 ==
            FAdd(FAdd(FAdd(FMul(self[Matrix4_m.m41], rhs[Matrix4_m.m14]),
                               FMul(self[Matrix4_m.m42], rhs[Matrix4_m.m24])),
                          FMul(self[Matrix4_m.m43], rhs[Matrix4_m.m34])),
                     FMul(self[Matrix4_m.m44], rhs[Matrix4_m.m44]))
    IN  Matrix4_make(m11,
                             m21,
                             m31,
                             m41,
                             m12,
                             m22,
                             m32,
                             m42,
                             m13,
                             m23,
                             m33,
                             m43,
                             m14,
                             m24,
                             m34,
                             m44)

Matrix4_mul(self, rhs) ==
    LET m11 ==
            FAdd(FAdd(FAdd(FMul(self[Matrix4_m.m11], rhs[Matrix4_m.m11]),
                               FMul(self[Matrix4_m.m12], rhs[Matrix4_m.m21])),
                          FMul(self[Matrix4_m.m13], rhs[Matrix4_m.m31])),
                     FMul(self[Matrix4_m.m14], rhs[Matrix4_m.m41]))
        m21 ==
            FAdd(FAdd(FAdd(FMul(self[Matrix4_m.m21], rhs[Matrix4_m.m11]),
                               FMul(self[Matrix4_m.m22], rhs[Matrix4_m.m21])),
                          FMul(self[Matrix4_m.m23], rhs[Matrix4_m.m31])),
                     FMul(self[Matrix4_m.m24], rhs[Matrix4_m.m41]))
        m31 ==
            FAdd(FAdd(FAdd(FMul(self[Matrix4_m.m31], rhs[Matrix4_m.m11]),
                               FMul(self[Matrix4_m.m32], rhs[Matrix4_m.m21])),
                          FMul(self[Matrix4_m.m33], rhs[Matrix4_m.m31])),
                     FMul(self[Matrix4_m.m34], rhs[Matrix4_m.m41]))
        m41 ==
            FAdd(FAdd(FAdd(FMul(self[Matrix4_m.m41], rhs[Matrix4_m.m11]),
                               FMul(self[Matrix4_m.m42], rhs[Matrix4_m.m21])),
                          FMul(self[Matrix4_m.m43], rhs[Matrix4_m.m31])),
                     FMul(self[Matrix4_m.m44], rhs[Matrix4_m.m41]))
        m12 ==
            FAdd(FAdd(FAdd(FMul(self[Matrix4_m.m11], rhs[Matrix4_m.m12]),
                               FMul(self[Matrix4_m.m12], rhs[Matrix4_m.m22])),
                          FMul(self[Matrix4_m.m13], rhs[Matrix4_m.m32])),
                     FMul(self[Matrix4_m.m14], rhs[Matrix4_m.m42]))
        m22 ==
            FAdd(FAdd(FAdd(FMul(self[Matrix4_m.m21], rhs[Matrix4_m.m12]),
                               FMul(self[Matrix4_m.m22], rhs[Matrix4_m.m22])),
                          FMul(self[Matrix4_m.m23], rhs[Matrix4_m.m32])),
                     FMul(self[Matrix4_m.m24], rhs[Matrix4_m.m42]))
        m32 ==
            FAdd(FAdd(FAdd(FMul(self[Matrix4_m.m31], rhs[Matrix4_m.m12]),
                               FMul(self[Matrix4_m.m32], rhs[Matrix4_m.m22])),
                          FMul(self[Matrix4_m.m33], rhs[Matrix4_m.m32])),
                     FMul(self[Matrix4_m.m34], rhs[Matrix4_m.m42]))
        m42 ==
            FAdd(FAdd(FAdd(FMul(self[Matrix4_m.m41], rhs[Matrix4_m.m12]),
                               FMul(self[Matrix4_m.m42], rhs[Matrix4_m.m22])),
                          FMul(self[Matrix4_m.m43], rhs[Matrix4_m.m32])),
                     FMul(self[Matrix4_m.m44], rhs[Matrix4_m.m42]))
        m13 ==
            FAdd(FAdd(FAdd(FMul(self[Matrix4_m.m11], rhs[Matrix4_m.m13]),
                               FMul(self[Matrix4_m.m12], rhs[Matrix4_m.m23])),
                          FMul(self[Matrix4_m.m13], rhs[Matrix4_m.m33])),
                     FMul(self[Matrix4_m.m14], rhs[Matrix4_m.m43]))
        m23 ==
            FAdd(FAdd(FAdd(FMul(self[Matrix4_m.m21], rhs[Matrix4_m.m13]),
                               FMul(self[Matrix4_m.m22], rhs[Matrix4_m.m23])),
                          FMul(self[Matrix4_m.m23], rhs[Matrix4_m.m33])),
                     FMul(self[Matrix4_m.m24], rhs[Matrix4_m.m43]))
        m33 ==
            FAdd(FAdd(FAdd(FMul(self[Matrix4_m.m31], rhs[Matrix4_m.m13]),
                               FMul(self[Matrix4_m.m32], rhs[Matrix4_m.m23])),
                          FMul(self[Matrix4_m.m33], rhs[Matrix4_m.m33])),
                     FMul(self[Matrix4_m.m34], rhs[Matrix4_m.m43]))
        m43 ==
            FAdd(FAdd(FAdd(FMul(self[Matrix4_m.m41], rhs[Matrix4_m.m13]),
                               FMul(self[Matrix4_m.m42], rhs[Matrix4_m.m23])),
                          FMul(self[Matrix4_m.m43], rhs[Matrix4_m.m33])),
                     FMul(self[Matrix4_m.m44], rhs[Matrix4_m.m43]))
        m14 ==
            FAdd(FAdd(FAdd(FMul(self[Matrix4_m.m11], rhs[Matrix4_m.m14]),
                               FMul(self[Matrix4_m.m12], rhs[Matrix4_m.m24])),
                          FMul(self[Matrix4_m.m13], rhs[Matrix4_m.m34])),
                     FMul(self[Matrix4_m.m14], rhs[Matrix4_m.m44]))
        m24 ==
            FAdd(FAdd(FAdd(FMul(self[Matrix4_m.m21], rhs[Matrix4_m.m14]),
                               FMul(self[Matrix4_m.m22], rhs[Matrix4_m.m24])),
                          FMul(self[Matrix4_m.m23], rhs[Matrix4_m.m34])),
                     FMul(self[Matrix4_m.m24], rhs[Matrix4_m.m44]))
        m34 ==
            FAdd(FAdd(FAdd(FMul(self[Matrix4_m.m31], rhs[Matrix4_m.m14]),
                               FMul(self[Matrix4_m.m32], rhs[Matrix4_m.m24])),
                          FMul(self[Matrix4_m.m33], rhs[Matrix4_m.m34])),
                     FMul(self[Matrix4_m.m34], rhs[Matrix4_m.m44]))
        m44 ==
            FAdd(FAdd(FAdd(FMul(self[Matrix4_m.m41], rhs[Matrix4_m.m14]),
                               FMul(self[Matrix4_m.m42], rhs[Matrix4_m.m24])),
                          FMul(self[Matrix4_m.m43], rhs[Matrix4_m.m34])),
                     FMul(self[Matrix4_m.m44], rhs[Matrix4_m.m44]))
    IN  Matrix4_make(m11,
                             m21,
                             m31,
                             m41,
                             m12,
                             m22,
                             m32,
                             m42,
                             m13,
                             m23,
                             m33,
                             m43,
                             m14,
                             m24,
                             m34,
                             m44)

Matrix4_eq(self, rhs) ==
    \A i \in 1..16 : ~FNe(self[i], rhs[i])

Matrix4_transform_point_Vector3(self, point) ==
    Vector3_make(FAdd(FAdd(FAdd(FMul(self[Matrix4_m.m11], point.x),
                                            FMul(self[Matrix4_m.m12], point.y)),
                                       FMul(self[Matrix4_m.m13], point.z)),
                                  self[Matrix4_m.m14]),
                             FAdd(FAdd(FAdd(FMul(self[Matrix4_m.m21], point.x),
                                            FMul(self[Matrix4_m.m22], point.y)),
                                       FMul(self[Matrix4_m.m23], point.z)),
                                  self[Matrix4_m.m24]),
                             FAdd(FAdd(FAdd(FMul(self[Matrix4_m.m31], point.x),
                                            FMul(self[Matrix4_m.m32], point.y)),
                                       FMul(self[Matrix4_m.m33], point.z)),
                                  self[Matrix4_m.m34]))

Matrix4_transform_point_Vector4(self, point) ==
    Vector4_make(FAdd(FAdd(FAdd(FMul(self[Matrix4_m.m11], point.x),
                                            FMul(self[Matrix4_m.m12], point.y)),
                                       FMul(self[Matrix4_m.m13], point.z)),
                                  FMul(self[Matrix4_m.m14], point.w)),
                             FAdd(FAdd(FAdd(FMul(self[Matrix4_m.m21], point.x),
                                            FMul(self[Matrix4_m.m22], point.y)),
                                       FMul(self[Matrix4_m.m23], point.z)),
                                  FMul(self[Matrix4_m.m24], point.w)),
                             FAdd(FAdd(FAdd(FMul(self[Matrix4_m.m31], point.x),
                                            FMul(self[Matrix4_m.m32], point.y)),
                                       FMul(self[Matrix4_m.m33], point.z)),
                                  FMul(self[Matrix4_m.m34], point.w)),
                             FAdd(FAdd(FAdd(FMul(self[Matrix4_m.m41], point.x),
                                            FMul(self[Matrix4_m.m42], point.y)),
                                       FMul(self[Matrix4_m.m43], point.z)),
                                  FMul(self[Matrix4_m.m44], point.w)))

Matrix4_rotate_x(angle) ==
    [Matrix4_new EXCEPT
        ![Matrix4_set_m.m22] = cos(angle),
        ![Matrix4_set_m.m32] = sin(angle),
        ![Matrix4_set_m.m23] = FNeg(sin(angle)),
        ![Matrix4_set_m.m33] = cos(angle)]

\* Matrix4::rotate_y, but the two writes to m31 are made in the other order
Matrix4_rotate_y_first_write(angle) ==
    [Matrix4_new EXCEPT
        ![Matrix4_set_m.m11] = cos(angle),
        ![Matrix4_set_m.m31] = sin(angle),
        ![Matrix4_set_m.m31] = FNeg(sin(angle)),
        ![Matrix4_set_m.m33] = cos(angle)]

Matrix4_rotate_y(angle) ==
    [Matrix4_new EXCEPT
        ![Matrix4_set_m.m11] = cos(angle),
        ![Matrix4_set_m.m31] = FNeg(sin(angle)),
        ![Matrix4_set_m.m31] = sin(angle),
        ![Matrix4_set_m.m33] = cos(angle)]

Matrix4_rotate_z(angle) ==
    [Matrix4_new EXCEPT
        ![Matrix4_set_m.m11] = cos(angle),
        ![Matrix4_set_m.m21] = FNeg(sin(angle)),
        ![Matrix4_set_m.m12] = sin(angle),
        ![Matrix4_set_m.m22] = cos(angle)]

(***************************************************************************)
(* Mat2  (src/src/mat2.rs)                                                 *)
(***************************************************************************)
Mat2_new ==
    <<F(1), F(0), F(0), F(1)>>

Mat2_construct(m11, m21, m12, m22) ==
    <<m11, m21, m12, m22>>

\* mRC(): the index of self.m (counted from 1) that mRC reads
Mat2_m ==
    [m11 |-> 1, m21 |-> 2,
     m12 |-> 3, m22 |-> 4]

\* set_mRC(v): the index of self.m (counted from 1) that set_mRC writes
Mat2_set_m ==
    [m11 |-> 1, m21 |-> 2,
     m12 |-> 3, m22 |-> 4]

Mat2_transpose(self) ==
    Swap(self, 1, 2)

Mat2_determinant(self) ==
    FSub(FMul(self[Mat2_m.m11], self[Mat2_m.m22]),
                     FMul(self[Mat2_m.m12], self[Mat2_m.m21]))

\* inverse(&mut self) -> bool : the returned flag and the matrix left in self
Mat2_inverse(self) ==
    Let(Mat2_determinant(self), LAMBDA det :
    IF FEq(det, F(0)) THEN [ret |-> FALSE, m |-> self]
    ELSE Let(FDiv(F(1), det), LAMBDA inv_det :
        LET m11 ==
                FMul(self[Mat2_m.m22], inv_det)
            m21 ==
                FMul(FNeg(self[Mat2_m.m21]), inv_det)
            m12 ==
                FMul(FNeg(self[Mat2_m.m12]), inv_det)
            m22 ==
                FMul(self[Mat2_m.m11], inv_det)
        IN  [ret |-> TRUE,
             m |-> [self EXCEPT
                      ![Mat2_set_m.m11] = m11,
                      ![Mat2_set_m.m21] = m21,
                      ![Mat2_set_m.m12] = m12,
                      ![Mat2_set_m.m22] = m22]]))

(***************************************************************************)
(* Mat3  (src/src/mat3.rs)                                                 *)
(***************************************************************************)
Mat3_new ==
    <<F(1), F(0), F(0), F(0), F(1), F(0), F(0), F(0), F(1)>>

Mat3_construct(m11, m21, m31, m12, m22, m32, m13, m23, m33) ==
    <<m11, m21, m31, m12, m22, m32, m13, m23, m33>>

\* mRC(): the index of self.m (counted from 1) that mRC reads
Mat3_m ==
    [m11 |-> 1, m21 |-> 2, m31 |-> 3,
     m12 |-> 4, m22 |-> 5, m32 |-> 6,
     m13 |-> 7, m23 |-> 8, m33 |-> 9]

\* set_mRC(v): the index of self.m (counted from 1) that set_mRC writes
Mat3_set_m ==
    [m11 |-> 1, m21 |-> 2, m31 |-> 3,
     m12 |-> 4, m22 |-> 5, m32 |-> 6,
     m13 |-> 7, m23 |-> 8, m33 |-> 9]

Mat3_transpose(self) ==
    Swap(Swap(Swap(self, 1, 3), 5, 7), 2, 6)

Mat3_determinant(self) ==
    FAdd(FSub(FMul(self[Mat3_m.m11],
                               FSub(FMul(self[Mat3_m.m22], self[Mat3_m.m33]),
                                    FMul(self[Mat3_m.m23], self[Mat3_m.m32]))),
                          FMul(self[Mat3_m.m12],
                               FSub(FMul(self[Mat3_m.m21], self[Mat3_m.m33]),
                                    FMul(self[Mat3_m.m23], self[Mat3_m.m31])))),
                     FMul(self[Mat3_m.m13],
                          FSub(FMul(self[Mat3_m.m21], self[Mat3_m.m32]),
                               FMul(self[Mat3_m.m22], self[Mat3_m.m31]))))

\* inverse(&mut self) -> bool : the returned flag and the matrix left in self
Mat3_inverse(self) ==
    Let(Mat3_determinant(self), LAMBDA det :
    IF FEq(det, F(0)) THEN [ret |-> FALSE, m |-> self]
    ELSE Let(FDiv(F(1), det), LAMBDA inv_det :
        LET m11 ==
                FMul(Mat2_determinant(Mat2_construct(self[Mat3_m.m22], self[Mat3_m.m23], self[Mat3_m.m32], self[Mat3_m.m33])),
                     inv_det)
            m21 ==
                FMul(Mat2_determinant(Mat2_construct(self[Mat3_m.m23], self[Mat3_m.m21], self[Mat3_m.m33], self[Mat3_m.m31])),
                     inv_det)
            m31 ==
                FMul(Mat2_determinant(Mat2_construct(self[Mat3_m.m21], self[Mat3_m.m22], self[Mat3_m.m31], self[Mat3_m.m32])),
                     inv_det)
            m12 ==
                FMul(Mat2_determinant(Mat2_construct(self[Mat3_m.m13], self[Mat3_m.m12], self[Mat3_m.m33], self[Mat3_m.m32])),
                     inv_det)
            m22 ==
                FMul(Mat2_determinant(Mat2_construct(self[Mat3_m.m11], self[Mat3_m.m13], self[Mat3_m.m31], self[Mat3_m.m33])),
                     inv_det)
            m32 ==
                FMul(Mat2_determinant(Mat2_construct(self[Mat3_m.m12], self[Mat3_m.m11], self[Mat3_m.m32], self[Mat3_m.m31])),
                     inv_det)
            m13 ==
                FMul(Mat2_determinant(Mat2_construct(self[Mat3_m.m12], self[Mat3_m.m13], self[Mat3_m.m22], self[Mat3_m.m23])),
                     inv_det)
            m23 ==
                FMul(Mat2_determinant(Mat2_construct(self[Mat3_m.m13], self[Mat3_m.m11], self[Mat3_m.m23], self[Mat3_m.m21])),
                     inv_det)
            m33 ==
                FMul(Mat2_determinant(Mat2_construct(self[Mat3_m.m11], self[Mat3_m.m12], self[Mat3_m.m21], self[Mat3_m.m22])),
                     inv_det)
        IN  [ret |-> TRUE,
             m |-> [self EXCEPT
                      ![Mat3_set_m.m11] = m11,
                      ![Mat3_set_m.m21] = m21,
                      ![Mat3_set_m.m31] = m31,
                      ![Mat3_set_m.m12] = m12,
                      ![Mat3_set_m.m22] = m22,
                      ![Mat3_set_m.m32] = m32,
                      ![Mat3_set_m.m13] = m13,
                      ![Mat3_set_m.m23] = m23,
                      ![Mat3_set_m.m33] = m33]]))

(***************************************************************************)
(* Mat4  (src/src/mat4.rs)                                                 *)
(***************************************************************************)
Mat4_new ==
    <<F(1), F(0), F(0), F(0), F(0), F(1), F(0), F(0), F(0), F(0), F(1), F(0), F(0), F(0), F(0), F(1)>>

Mat4_construct(m11, m21, m31, m41, m12, m22, m32, m42, m13, m23, m33, m43, m14, m24, m34, m44) ==
    <<m11, m21, m31, m41, m12, m22, m32, m42, m13, m23, m33, m43, m14, m24, m34, m44>>

\* mRC(): the index of self.m (counted from 1) that mRC reads
Mat4_m ==
    [m11 |-> 1, m21 |-> 2, m31 |-> 3, m41 |-> 4,
     m12 |-> 5, m22 |-> 6, m32 |-> 7, m42 |-> 8,
     m13 |-> 9, m23 |-> 10, m33 |-> 11, m43 |-> 12,
     m14 |-> 13, m24 |-> 14, m34 |-> 15, m44 |-> 16]

\* set_mRC(v): the index of self.m (counted from 1) that set_mRC writes
Mat4_set_m ==
    [m11 |-> 1, m21 |-> 2, m31 |-> 3, m41 |-> 4,
     m12 |-> 5, m22 |-> 6, m32 |-> 7, m42 |-> 8,
     m13 |-> 9, m23 |-> 10, m33 |-> 11, m43 |-> 12,
     m14 |-> 13, m24 |-> 14, m34 |-> 15, m44 |-> 16]

Mat4_transpose(self) ==
    Swap(Swap(Swap(Swap(Swap(Swap(self, 1, 4), 2, 8), 6, 9), 7, 13), 11, 14), 3, 12)

Mat4_determinant(self) ==
    LET a ==
              FMul(Mat3_determinant(Mat3_construct(self[Mat4_m.m22], self[Mat4_m.m23], self[Mat4_m.m24], self[Mat4_m.m32], self[Mat4_m.m33], self[Mat4_m.m34], self[Mat4_m.m42], self[Mat4_m.m43], self[Mat4_m.m44])),
                     self[Mat4_m.m11])
        b ==
              FMul(Mat3_determinant(Mat3_construct(self[Mat4_m.m21], self[Mat4_m.m23], self[Mat4_m.m24], self[Mat4_m.m31], self[Mat4_m.m33], self[Mat4_m.m34], self[Mat4_m.m41], self[Mat4_m.m43], self[Mat4_m.m44])),
                     self[Mat4_m.m12])
        c ==
              FMul(Mat3_determinant(Mat3_construct(self[Mat4_m.m21], self[Mat4_m.m22], self[Mat4_m.m24], self[Mat4_m.m31], self[Mat4_m.m32], self[Mat4_m.m34], self[Mat4_m.m41], self[Mat4_m.m42], self[Mat4_m.m44])),
                     self[Mat4_m.m13])
        d ==
              FMul(Mat3_determinant(Mat3_construct(self[Mat4_m.m21], self[Mat4_m.m22], self[Mat4_m.m23], self[Mat4_m.m31], self[Mat4_m.m32], self[Mat4_m.m33], self[Mat4_m.m41], self[Mat4_m.m42], self[Mat4_m.m43])),
                     self[Mat4_m.m14])
    IN  FSub(FAdd(FSub(a, b), c), d)

\* inverse(&mut self) -> bool : the returned flag and the matrix left in self
Mat4_inverse(self) ==
    Let(Mat4_determinant(self), LAMBDA det :
    IF FEq(det, F(0)) THEN [ret |-> FALSE, m |-> self]
    ELSE Let(FDiv(F(1), det), LAMBDA inv_det :
        LET pre_m11 ==
                FSub(FAdd(FAdd(FSub(FSub(FMul(FMul(self[Mat4_m.m22], self[Mat4_m.m33]),
                                              self[Mat4_m.m44]),
                                         FMul(FMul(self[Mat4_m.m22], self[Mat4_m.m43]),
                                              self[Mat4_m.m34])),
                                    FMul(FMul(self[Mat4_m.m23],
                                              self[Mat4_m.m32]),
                                         self[Mat4_m.m44])),
                               FMul(FMul(self[Mat4_m.m23], self[Mat4_m.m42]),
                                    self[Mat4_m.m34])),
                          FMul(FMul(self[Mat4_m.m24], self[Mat4_m.m32]),
                               self[Mat4_m.m43])),
                     FMul(FMul(self[Mat4_m.m24], self[Mat4_m.m42]),
                          self[Mat4_m.m33]))
            pre_m21 ==
                FAdd(FSub(FSub(FAdd(FAdd(FMul(FMul(FNeg(self[Mat4_m.m21]), self[Mat4_m.m33]),
                                              self[Mat4_m.m44]),
                                         FMul(FMul(self[Mat4_m.m21], self[Mat4_m.m43]),
                                              self[Mat4_m.m34])),
                                    FMul(FMul(self[Mat4_m.m23],
                                              self[Mat4_m.m31]),
                                         self[Mat4_m.m44])),
                               FMul(FMul(self[Mat4_m.m23], self[Mat4_m.m41]),
                                    self[Mat4_m.m34])),
                          FMul(FMul(self[Mat4_m.m24], self[Mat4_m.m31]),
                               self[Mat4_m.m43])),
                     FMul(FMul(self[Mat4_m.m24], self[Mat4_m.m41]),
                          self[Mat4_m.m33]))
            pre_m31 ==
                FSub(FAdd(FAdd(FSub(FSub(FMul(FMul(self[Mat4_m.m21], self[Mat4_m.m32]),
                                              self[Mat4_m.m44]),
                                         FMul(FMul(self[Mat4_m.m21], self[Mat4_m.m42]),
                                              self[Mat4_m.m34])),
                                    FMul(FMul(self[Mat4_m.m22],
                                              self[Mat4_m.m31]),
                                         self[Mat4_m.m44])),
                               FMul(FMul(self[Mat4_m.m22], self[Mat4_m.m41]),
                                    self[Mat4_m.m34])),
                          FMul(FMul(self[Mat4_m.m24], self[Mat4_m.m31]),
                               self[Mat4_m.m42])),
                     FMul(FMul(self[Mat4_m.m24], self[Mat4_m.m41]),
                          self[Mat4_m.m32]))
            pre_m41 ==
                FAdd(FSub(FSub(FAdd(FAdd(FMul(FMul(FNeg(self[Mat4_m.m21]), self[Mat4_m.m32]),
                                              self[Mat4_m.m43]),
                                         FMul(FMul(self[Mat4_m.m21], self[Mat4_m.m42]),
                                              self[Mat4_m.m33])),
                                    FMul(FMul(self[Mat4_m.m22],
                                              self[Mat4_m.m31]),
                                         self[Mat4_m.m43])),
                               FMul(FMul(self[Mat4_m.m22], self[Mat4_m.m41]),
                                    self[Mat4_m.m33])),
                          FMul(FMul(self[Mat4_m.m23], self[Mat4_m.m31]),
                               self[Mat4_m.m42])),
                     FMul(FMul(self[Mat4_m.m23], self[Mat4_m.m41]),
                          self[Mat4_m.m32]))
            pre_m12 ==
                FAdd(FSub(FSub(FAdd(FAdd(FMul(FMul(FNeg(self[Mat4_m.m12]), self[Mat4_m.m33]),
                                              self[Mat4_m.m44]),
                                         FMul(FMul(self[Mat4_m.m12], self[Mat4_m.m43]),
                                              self[Mat4_m.m34])),
                                    FMul(FMul(self[Mat4_m.m13],
                                              self[Mat4_m.m32]),
                                         self[Mat4_m.m44])),
                               FMul(FMul(self[Mat4_m.m13], self[Mat4_m.m42]),
                                    self[Mat4_m.m34])),
                          FMul(FMul(self[Mat4_m.m14], self[Mat4_m.m32]),
                               self[Mat4_m.m43])),
                     FMul(FMul(self[Mat4_m.m14], self[Mat4_m.m42]),
                          self[Mat4_m.m33]))
            pre_m22 ==
                FSub(FAdd(FAdd(FSub(FSub(FMul(FMul(self[Mat4_m.m11], self[Mat4_m.m33]),
                                              self[Mat4_m.m44]),
                                         FMul(FMul(self[Mat4_m.m11], self[Mat4_m.m43]),
                                              self[Mat4_m.m34])),
                                    FMul(FMul(self[Mat4_m.m13],
                                              self[Mat4_m.m31]),
                                         self[Mat4_m.m44])),
                               FMul(FMul(self[Mat4_m.m13], self[Mat4_m.m41]),
                                    self[Mat4_m.m34])),
                          FMul(FMul(self[Mat4_m.m14], self[Mat4_m.m31]),
                               self[Mat4_m.m43])),
                     FMul(FMul(self[Mat4_m.m14], self[Mat4_m.m41]),
                          self[Mat4_m.m33]))
            pre_m32 ==
                FAdd(FSub(FSub(FAdd(FAdd(FMul(FMul(FNeg(self[Mat4_m.m11]), self[Mat4_m.m32]),
                                              self[Mat4_m.m44]),
                                         FMul(FMul(self[Mat4_m.m11], self[Mat4_m.m42]),
                                              self[Mat4_m.m34])),
                                    FMul(FMul(self[Mat4_m.m12],
                                              self[Mat4_m.m31]),
                                         self[Mat4_m.m44])),
                               FMul(FMul(self[Mat4_m.m12], self[Mat4_m.m41]),
                                    self[Mat4_m.m34])),
                          FMul(FMul(self[Mat4_m.m14], self[Mat4_m.m31]),
                               self[Mat4_m.m42])),
                     FMul(FMul(self[Mat4_m.m14], self[Mat4_m.m41]),
                          self[Mat4_m.m32]))
            pre_m42 ==
                FSub(FAdd(FAdd(FSub(FSub(FMul(FMul(self[Mat4_m.m11], self[Mat4_m.m32]),
                                              self[Mat4_m.m43]),
                                         FMul(FMul(self[Mat4_m.m11], self[Mat4_m.m42]),
                                              self[Mat4_m.m33])),
                                    FMul(FMul(self[Mat4_m.m12],
                                              self[Mat4_m.m31]),
                                         self[Mat4_m.m43])),
                               FMul(FMul(self[Mat4_m.m12], self[Mat4_m.m41]),
                                    self[Mat4_m.m33])),
                          FMul(FMul(self[Mat4_m.m13], self[Mat4_m.m31]),
                               self[Mat4_m.m42])),
                     FMul(FMul(self[Mat4_m.m13], self[Mat4_m.m41]),
                          self[Mat4_m.m32]))
            pre_m13 ==
                FSub(FAdd(FAdd(FSub(FSub(FMul(FMul(self[Mat4_m.m12], self[Mat4_m.m23]),
                                              self[Mat4_m.m44]),
                                         FMul(FMul(self[Mat4_m.m12], self[Mat4_m.m43]),
                                              self[Mat4_m.m24])),
                                    FMul(FMul(self[Mat4_m.m13],
                                              self[Mat4_m.m22]),
                                         self[Mat4_m.m44])),
                               FMul(FMul(self[Mat4_m.m13], self[Mat4_m.m42]),
                                    self[Mat4_m.m24])),
                          FMul(FMul(self[Mat4_m.m14], self[Mat4_m.m22]),
                               self[Mat4_m.m43])),
                     FMul(FMul(self[Mat4_m.m14], self[Mat4_m.m42]),
                          self[Mat4_m.m23]))
            pre_m23 ==
                FAdd(FSub(FSub(FAdd(FAdd(FMul(FMul(FNeg(self[Mat4_m.m11]), self[Mat4_m.m23]),
                                              self[Mat4_m.m44]),
                                         FMul(FMul(self[Mat4_m.m11], self[Mat4_m.m43]),
                                              self[Mat4_m.m24])),
                                    FMul(FMul(self[Mat4_m.m13],
                                              self[Mat4_m.m21]),
                                         self[Mat4_m.m44])),
                               FMul(FMul(self[Mat4_m.m13], self[Mat4_m.m41]),
                                    self[Mat4_m.m24])),
                          FMul(FMul(self[Mat4_m.m14], self[Mat4_m.m21]),
                               self[Mat4_m.m43])),
                     FMul(FMul(self[Mat4_m.m14], self[Mat4_m.m41]),
                          self[Mat4_m.m23]))
            pre_m33 ==
                FSub(FAdd(FAdd(FSub(FSub(FMul(FMul(self[Mat4_m.m11], self[Mat4_m.m22]),
                                              self[Mat4_m.m44]),
                                         FMul(FMul(self[Mat4_m.m11], self[Mat4_m.m42]),
                                              self[Mat4_m.m24])),
                                    FMul(FMul(self[Mat4_m.m12],
                                              self[Mat4_m.m21]),
                                         self[Mat4_m.m44])),
                               FMul(FMul(self[Mat4_m.m12], self[Mat4_m.m41]),
                                    self[Mat4_m.m24])),
                          FMul(FMul(self[Mat4_m.m14], self[Mat4_m.m21]),
                               self[Mat4_m.m42])),
                     FMul(FMul(self[Mat4_m.m14], self[Mat4_m.m41]),
                          self[Mat4_m.m22]))
            pre_m43 ==
                FAdd(FSub(FSub(FAdd(FAdd(FMul(FMul(FNeg(self[Mat4_m.m11]), self[Mat4_m.m22]),
                                              self[Mat4_m.m43]),
                                         FMul(FMul(self[Mat4_m.m11], self[Mat4_m.m42]),
                                              self[Mat4_m.m23])),
                                    FMul(FMul(self[Mat4_m.m12],
                                              self[Mat4_m.m21]),
                                         self[Mat4_m.m43])),
                               FMul(FMul(self[Mat4_m.m12], self[Mat4_m.m41]),
                                    self[Mat4_m.m23])),
                          FMul(FMul(self[Mat4_m.m13], self[Mat4_m.m21]),
                               self[Mat4_m.m42])),
                     FMul(FMul(self[Mat4_m.m13], self[Mat4_m.m41]),
                          self[Mat4_m.m22]))
            pre_m14 ==
                FAdd(FSub(FSub(FAdd(FAdd(FMul(FMul(FNeg(self[Mat4_m.m12]), self[Mat4_m.m23]),
                                              self[Mat4_m.m34]),
                                         FMul(FMul(self[Mat4_m.m12], self[Mat4_m.m33]),
                                              self[Mat4_m.m24])),
                                    FMul(FMul(self[Mat4_m.m13],
                                              self[Mat4_m.m22]),
                                         self[Mat4_m.m34])),
                               FMul(FMul(self[Mat4_m.m13], self[Mat4_m.m32]),
                                    self[Mat4_m.m24])),
                          FMul(FMul(self[Mat4_m.m14], self[Mat4_m.m22]),
                               self[Mat4_m.m33])),
                     FMul(FMul(self[Mat4_m.m14], self[Mat4_m.m32]),
                          self[Mat4_m.m23]))
            pre_m24 ==
                FSub(FAdd(FAdd(FSub(FSub(FMul(FMul(self[Mat4_m.m11], self[Mat4_m.m23]),
                                              self[Mat4_m.m34]),
                                         FMul(FMul(self[Mat4_m.m11], self[Mat4_m.m33]),
                                              self[Mat4_m.m24])),
                                    FMul(FMul(self[Mat4_m.m13],
                                              self[Mat4_m.m21]),
                                         self[Mat4_m.m34])),
                               FMul(FMul(self[Mat4_m.m13], self[Mat4_m.m31]),
                                    self[Mat4_m.m24])),
                          FMul(FMul(self[Mat4_m.m14], self[Mat4_m.m21]),
                               self[Mat4_m.m33])),
                     FMul(FMul(self[Mat4_m.m14], self[Mat4_m.m31]),
                          self[Mat4_m.m23]))
            pre_m34 ==
                FAdd(FSub(FSub(FAdd(FAdd(FMul(FMul(FNeg(self[Mat4_m.m11]), self[Mat4_m.m22]),
                                              self[Mat4_m.m34]),
                                         FMul(FMul(self[Mat4_m.m11], self[Mat4_m.m32]),
                                              self[Mat4_m.m24])),
                                    FMul(FMul(self[Mat4_m.m12],
                                              self[Mat4_m.m21]),
                                         self[Mat4_m.m34])),
                               FMul(FMul(self[Mat4_m.m12], self[Mat4_m.m31]),
                                    self[Mat4_m.m24])),
                          FMul(FMul(self[Mat4_m.m14], self[Mat4_m.m21]),
                               self[Mat4_m.m32])),
                     FMul(FMul(self[Mat4_m.m14], self[Mat4_m.m31]),
                          self[Mat4_m.m22]))
            pre_m44 ==
                FSub(FAdd(FAdd(FSub(FSub(FMul(FMul(self[Mat4_m.m11], self[Mat4_m.m22]),
                                              self[Mat4_m.m33]),
                                         FMul(FMul(self[Mat4_m.m11], self[Mat4_m.m32]),
                                              self[Mat4_m.m23])),
                                    FMul(FMul(self[Mat4_m.m12],
                                              self[Mat4_m.m21]),
                                         self[Mat4_m.m33])),
                               FMul(FMul(self[Mat4_m.m12], self[Mat4_m.m31]),
                                    self[Mat4_m.m23])),
                          FMul(FMul(self[Mat4_m.m13], self[Mat4_m.m21]),
                               self[Mat4_m.m32])),
                     FMul(FMul(self[Mat4_m.m13], self[Mat4_m.m31]),
                          self[Mat4_m.m22]))
        IN  [ret |-> TRUE,
             m |-> [self EXCEPT
                      ![Mat4_set_m.m11] = FMul(pre_m11, inv_det),
                      ![Mat4_set_m.m21] = FMul(pre_m21, inv_det),
                      ![Mat4_set_m.m31] = FMul(pre_m31, inv_det),
                      ![Mat4_set_m.m41] = FMul(pre_m41, inv_det),
                      ![Mat4_set_m.m12] = FMul(pre_m12, inv_det),
                      ![Mat4_set_m.m22] = FMul(pre_m22, inv_det),
                      ![Mat4_set_m.m32] = FMul(pre_m32, inv_det),
                      ![Mat4_set_m.m42] = FMul(pre_m42, inv_det),
                      ![Mat4_set_m.m13] = FMul(pre_m13, inv_det),
                      ![Mat4_set_m.m23] = FMul(pre_m23, inv_det),
                      ![Mat4_set_m.m33] = FMul(pre_m33, inv_det),
                      ![Mat4_set_m.m43] = FMul(pre_m43, inv_det),
                      ![Mat4_set_m.m14] = FMul(pre_m14, inv_det),
                      ![Mat4_set_m.m24] = FMul(pre_m24, inv_det),
                      ![Mat4_set_m.m34] = FMul(pre_m34, inv_det),
                      ![Mat4_set_m.m44] = FMul(pre_m44, inv_det)]]))

(***************************************************************************)
(* Mat2, Mat3, Mat4: the matrix product and transform_point                 *)
(***************************************************************************)

Mat2_mul(self, rhs) ==
    LET m11 ==
            FAdd(FMul(self[Mat2_m.m11], rhs[Mat2_m.m11]),
                     FMul(self[Mat2_m.m12], rhs[Mat2_m.m21]))
        m21 ==
            FAdd(FMul(self[Mat2_m.m21], rhs[Mat2_m.m11]),
                     FMul(self[Mat2_m.m22], rhs[Mat2_m.m21]))
        m12 ==
            FAdd(FMul(self[Mat2_m.m11], rhs[Mat2_m.m12]),
                     FMul(self[Mat2_m.m12], rhs[Mat2_m.m22]))
        m22 ==
            FAdd(FMul(self[Mat2_m.m21], rhs[Mat2_m.m12]),
                     FMul(self[Mat2_m.m22], rhs[Mat2_m.m22]))
    IN  Mat2_construct(m11, m21, m12, m22)

Mat3_mul(self, rhs) ==
    LET m11 ==
            FAdd(FAdd(FMul(self[Mat3_m.m11], rhs[Mat3_m.m11]),
                          FMul(self[Mat3_m.m12], rhs[Mat3_m.m21])),
                     FMul(self[Mat3_m.m13], rhs[Mat3_m.m31]))
        m21 ==
            FAdd(FAdd(FMul(self[Mat3_m.m21], rhs[Mat3_m.m11]),
                          FMul(self[Mat3_m.m22], rhs[Mat3_m.m21])),
                     FMul(self[Mat3_m.m23], rhs[Mat3_m.m31]))
        m31 ==
            FAdd(FAdd(FMul(self[Mat3_m.m31], rhs[Mat3_m.m11]),
                          FMul(self[Mat3_m.m32], rhs[Mat3_m.m21])),
                     FMul(self[Mat3_m.m33], rhs[Mat3_m.m31]))
        m12 ==
            FAdd(FAdd(FMul(self[Mat3_m.m11], rhs[Mat3_m.m12]),
                          FMul(self[Mat3_m.m12], rhs[Mat3_m.m22])),
                     FMul(self[Mat3_m.m13], rhs[Mat3_m.m32]))
        m22 ==
            FAdd(FAdd(FMul(self[Mat3_m.m21], rhs[Mat3_m.m12]),
                          FMul(self[Mat3_m.m22], rhs[Mat3_m.m22])),
                     FMul(self[Mat3_m.m23], rhs[Mat3_m.m32]))
        m32 ==
            FAdd(FAdd(FMul(self[Mat3_m.m31], rhs[Mat3_m.m12]),
                          FMul(self[Mat3_m.m32], rhs[Mat3_m.m22])),
                     FMul(self[Mat3_m.m33], rhs[Mat3_m.m32]))
        m13 ==
            FAdd(FAdd(FMul(self[Mat3_m.m11], rhs[Mat3_m.m13]),
                          FMul(self[Mat3_m.m12], rhs[Mat3_m.m23])),
                     FMul(self[Mat3_m.m13], rhs[Mat3_m.m33]))
        m23 ==
            FAdd(FAdd(FMul(self[Mat3_m.m21], rhs[Mat3_m.m13]),
                          FMul(self[Mat3_m.m22], rhs[Mat3_m.m23])),
                     FMul(self[Mat3_m.m23], rhs[Mat3_m.m33]))
        m33 ==
            FAdd(FAdd(FMul(self[Mat3_m.m31], rhs[Mat3_m.m13]),
                          FMul(self[Mat3_m.m32], rhs[Mat3_m.m23])),
                     FMul(self[Mat3_m.m33], rhs[Mat3_m.m33]))
    IN  Mat3_construct(m11, m21, m31, m12, m22, m32, m13, m23, m33)

Mat3_transform_point_Vec2(self, point) ==
    Vector2_make(FAdd(FAdd(FMul(self[Mat3_m.m11], point.x),
                                       FMul(self[Mat3_m.m12], point.y)),
                                  self[Mat3_m.m13]),
                             FAdd(FAdd(FMul(self[Mat3_m.m21], point.x),
                                       FMul(self[Mat3_m.m22], point.y)),
                                  self[Mat3_m.m23]))

Mat3_transform_point_Vec3(self, point) ==
    Vector3_make(FAdd(FAdd(FMul(self[Mat3_m.m11], point.x),
                                       FMul(self[Mat3_m.m12], point.y)),
                                  FMul(self[Mat3_m.m13], point.z)),
                             FAdd(FAdd(FMul(self[Mat3_m.m21], point.x),
                                       FMul(self[Mat3_m.m22], point.y)),
                                  FMul(self[Mat3_m.m23], point.z)),
                             FAdd(FAdd(FMul(self[Mat3_m.m31], point.x),
                                       FMul(self[Mat3_m.m32], point.y)),
                                  FMul(self[Mat3_m.m33], point.z)))

Mat4_mul(self, rhs) ==
    LET m11 ==
            FAdd(FAdd(FAdd(FMul(self[Mat4_m.m11], rhs[Mat4_m.m11]),
                               FMul(self[Mat4_m.m12], rhs[Mat4_m.m21])),
                          FMul(self[Mat4_m.m13], rhs[Mat4_m.m31])),
                     FMul(self[Mat4_m.m14], rhs[Mat4_m.m41]))
        m21 ==
            FAdd(FAdd(FAdd(FMul(self[Mat4_m.m21], rhs[Mat4_m.m11]),
                               FMul(self[Mat4_m.m22], rhs[Mat4_m.m21])),
                          FMul(self[Mat4_m.m23], rhs[Mat4_m.m31])),
                     FMul(self[Mat4_m.m24], rhs[Mat4_m.m41]))
        m31 ==
            FAdd(FAdd(FAdd(FMul(self[Mat4_m.m31], rhs[Mat4_m.m11]),
                               FMul(self[Mat4_m.m32], rhs[Mat4_m.m21])),
                          FMul(self[Mat4_m.m33], rhs[Mat4_m.m31])),
                     FMul(self[Mat4_m.m34], rhs[Mat4_m.m41]))
        m41 ==
            FAdd(FAdd(FAdd(FMul(self[Mat4_m.m41], rhs[Mat4_m.m11]),
                               FMul(self[Mat4_m.m42], rhs[Mat4_m.m21])),
                          FMul(self[Mat4_m.m43], rhs[Mat4_m.m31])),
                     FMul(self[Mat4_m.m44], rhs[Mat4_m.m41]))
        m12 ==
            FAdd(FAdd(FAdd(FMul(self[Mat4_m.m11], rhs[Mat4_m.m12]),
                               FMul(self[Mat4_m.m12], rhs[Mat4_m.m22])),
                          FMul(self[Mat4_m.m13], rhs[Mat4_m.m32])),
                     FMul(self[Mat4_m.m14], rhs[Mat4_m.m42]))
        m22 ==
            FAdd(FAdd(FAdd(FMul(self[Mat4_m.m21], rhs[Mat4_m.m12]),
                               FMul(self[Mat4_m.m22], rhs[Mat4_m.m22])),
                          FMul(self[Mat4_m.m23], rhs[Mat4_m.m32])),
                     FMul(self[Mat4_m.m24], rhs[Mat4_m.m42]))
        m32 ==
            FAdd(FAdd(FAdd(FMul(self[Mat4_m.m31], rhs[Mat4_m.m12]),
                               FMul(self[Mat4_m.m32], rhs[Mat4_m.m22])),
                          FMul(self[Mat4_m.m33], rhs[Mat4_m.m32])),
                     FMul(self[Mat4_m.m34], rhs[Mat4_m.m42]))
        m42 ==
            FAdd(FAdd(FAdd(FMul(self[Mat4_m.m41], rhs[Mat4_m.m12]),
                               FMul(self[Mat4_m.m42], rhs[Mat4_m.m22])),
                          FMul(self[Mat4_m.m43], rhs[Mat4_m.m32])),
                     FMul(self[Mat4_m.m44], rhs[Mat4_m.m42]))
        m13 ==
            FAdd(FAdd(FAdd(FMul(self[Mat4_m.m11], rhs[Mat4_m.m13]),
                               FMul(self[Mat4_m.m12], rhs[Mat4_m.m23])),
                          FMul(self[Mat4_m.m13], rhs[Mat4_m.m33])),
                     FMul(self[Mat4_m.m14], rhs[Mat4_m.m43]))
        m23 ==
            FAdd(FAdd(FAdd(FMul(self[Mat4_m.m21], rhs[Mat4_m.m13]),
                               FMul(self[Mat4_m.m22], rhs[Mat4_m.m23])),
                          FMul(self[Mat4_m.m23], rhs[Mat4_m.m33])),
                     FMul(self[Mat4_m.m24], rhs[Mat4_m.m43]))
        m33 ==
            FAdd(FAdd(FAdd(FMul(self[Mat4_m.m31], rhs[Mat4_m.m13]),
                               FMul(self[Mat4_m.m32], rhs[Mat4_m.m23])),
                          FMul(self[Mat4_m.m33], rhs[Mat4_m.m33])),
                     FMul(self[Mat4_m.m34], rhs[Mat4_m.m43]))
        m43 ==
            FAdd(FAdd(FAdd(FMul(self[Mat4_m.m41], rhs[Mat4_m.m13]),
                               FMul(self[Mat4_m.m42], rhs[Mat4_m.m23])),
                          FMul(self[Mat4_m.m43], rhs[Mat4_m.m33])),
                     FMul(self[Mat4_m.m44], rhs[Mat4_m.m43]))
        m14 ==
            FAdd(FAdd(FAdd(FMul(self[Mat4_m.m11], rhs[Mat4_m.m14]),
                               FMul(self[Mat4_m.m12], rhs[Mat4_m.m24])),
                          FMul(self[Mat4_m.m13], rhs[Mat4_m.m34])),
                     FMul(self[Mat4_m.m14], rhs[Mat4_m.m44]))
        m24 ==
            FAdd(FAdd(FAdd(FMul(self[Mat4_m.m21], rhs[Mat4_m.m14]),
                               FMul(self[Mat4_m.m22], rhs[Mat4_m.m24])),
                          FMul(self[Mat4_m.m23], rhs[Mat4_m.m34])),
                     FMul(self[Mat4_m.m24], rhs[Mat4_m.m44]))
        m34 ==
            FAdd(FAdd(FAdd(FMul(self[Mat4_m.m31], rhs[Mat4_m.m14]),
                               FMul(self[Mat4_m.m32], rhs[Mat4_m.m24])),
                          FMul(self[Mat4_m.m33], rhs[Mat4_m.m34])),
                     FMul(self[Mat4_m.m34], rhs[Mat4_m.m44]))
        m44 ==
            FAdd(FAdd(FAdd(FMul(self[Mat4_m.m41], rhs[Mat4_m.m14]),
                               FMul(self[Mat4_m.m42], rhs[Mat4_m.m24])),
                          FMul(self[Mat4_m.m43], rhs[Mat4_m.m34])),
                     FMul(self[Mat4_m.m44], rhs[Mat4_m.m44]))
    IN  Mat4_construct(m11,
                             m21,
                             m31,
                             m41,
                             m12,
                             m22,
                             m32,
                             m42,
                             m13,
                             m23,
                             m33,
                             m43,
                             m14,
                             m24,
                             m34,
                             m44)

\* TransformPoint<Vec3> for Mat4, but without the translation column
Mat4_transform_point_Vec3_linear(self, point) ==
    Vector3_make(FAdd(FAdd(FAdd(FMul(self[Mat4_m.m11], point.x),
                                            FMul(self[Mat4_m.m12], point.y)),
                                       FMul(self[Mat4_m.m13], point.z)),
                                  F(0)),
                             FAdd(FAdd(FAdd(FMul(self[Mat4_m.m21], point.x),
                                            FMul(self[Mat4_m.m22], point.y)),
                                       FMul(self[Mat4_m.m23], point.z)),
                                  F(0)),
                             FAdd(FAdd(FAdd(FMul(self[Mat4_m.m31], point.x),
                                            FMul(self[Mat4_m.m32], point.y)),
                                       FMul(self[Mat4_m.m33], point.z)),
                                  F(0)))

Mat4_transform_point_Vec3(self, point) ==
    Vector3_make(FAdd(FAdd(FAdd(FMul(self[Mat4_m.m11], point.x),
                                            FMul(self[Mat4_m.m12], point.y)),
                                       FMul(self[Mat4_m.m13], point.z)),
                                  self[Mat4_m.m14]),
                             FAdd(FAdd(FAdd(FMul(self[Mat4_m.m21], point.x),
                                            FMul(self[Mat4_m.m22], point.y)),
                                       FMul(self[Mat4_m.m23], point.z)),
                                  self[Mat4_m.m24]),
                             FAdd(FAdd(FAdd(FMul(self[Mat4_m.m31], point.x),
                                            FMul(self[Mat4_m.m32], point.y)),
                                       FMul(self[Mat4_m.m33], point.z)),
                                  self[Mat4_m.m34]))

Mat4_transform_point_Vec4(self, point) ==
    Vector4_make(FAdd(FAdd(FAdd(FMul(self[Mat4_m.m11], point.x),
                                            FMul(self[Mat4_m.m12], point.y)),
                                       FMul(self[Mat4_m.m13], point.z)),
                                  FMul(self[Mat4_m.m14], point.w)),
                             FAdd(FAdd(FAdd(FMul(self[Mat4_m.m21], point.x),
                                            FMul(self[Mat4_m.m22], point.y)),
                                       FMul(self[Mat4_m.m23], point.z)),
                                  FMul(self[Mat4_m.m24], point.w)),
                             FAdd(FAdd(FAdd(FMul(self[Mat4_m.m31], point.x),
                                            FMul(self[Mat4_m.m32], point.y)),
                                       FMul(self[Mat4_m.m33], point.z)),
                                  FMul(self[Mat4_m.m34], point.w)),
                             FAdd(FAdd(FAdd(FMul(self[Mat4_m.m41], point.x),
                                            FMul(self[Mat4_m.m42], point.y)),
                                       FMul(self[Mat4_m.m43], point.z)),
                                  FMul(self[Mat4_m.m44], point.w)))
(***************************************************************************)
(* Method resolution: the operation of the receiver's type.                *)
(***************************************************************************)
MatrixTypes == {"Matrix2", "Matrix3", "Matrix4", "Mat2", "Mat3", "Mat4"}

NewTypes == {"Matrix2", "Matrix3", "Matrix4"}

Dim(ty) ==
    CASE ty \in {"Matrix2", "Mat2"} -> 2
      [] ty \in {"Matrix3", "Mat3"} -> 3
      [] ty \in {"Matrix4", "Mat4"} -> 4

\* make / construct applied to the argument list e
make(ty, e) ==
    CASE ty = "Matrix2" -> Matrix2_make(e[1], e[2], e[3], e[4])
      [] ty = "Mat2"    -> Mat2_construct(e[1], e[2], e[3], e[4])
      [] ty = "Matrix3" -> Matrix3_make(e[1], e[2], e[3], e[4], e[5], e[6],
                                        e[7], e[8], e[9])
      [] ty = "Mat3"    -> Mat3_construct(e[1], e[2], e[3], e[4], e[5], e[6],
                                          e[7], e[8], e[9])
      [] ty = "Matrix4" -> Matrix4_make(e[1], e[2], e[3], e[4], e[5], e[6],
                                        e[7], e[8], e[9], e[10], e[11], e[12],
                                        e[13], e[14], e[15], e[16])
      [] ty = "Mat4"    -> Mat4_construct(e[1], e[2], e[3], e[4], e[5], e[6],
                                          e[7], e[8], e[9], e[10], e[11],
                                          e[12], e[13], e[14], e[15], e[16])

new(ty) ==
    CASE ty = "Matrix2" -> Matrix2_new
      [] ty = "Mat2"    -> Mat2_new
      [] ty = "Matrix3" -> Matrix3_new
      [] ty = "Mat3"    -> Mat3_new
      [] ty = "Matrix4" -> Matrix4_new
      [] ty = "Mat4"    -> Mat4_new

\* the index table of the accessors m11 .. mNN
m_(ty) ==
    CASE ty = "Matrix2" -> Matrix2_m
      [] ty = "Mat2"    -> Mat2_m
      [] ty = "Matrix3" -> Matrix3_m
      [] ty = "Mat3"    -> Mat3_m
      [] ty = "Matrix4" -> Matrix4_m
      [] ty = "Mat4"    -> Mat4_m

transpose(ty, self) ==
    CASE ty = "Matrix2" -> Matrix2_transpose(self)
      [] ty = "Mat2"    -> Mat2_transpose(self)
      [] ty = "Matrix3" -> Matrix3_transpose(self)
      [] ty = "Mat3"    -> Mat3_transpose(self)
      [] ty = "Matrix4" -> Matrix4_transpose(self)
      [] ty = "Mat4"    -> Mat4_transpose(self)

determinant(ty, self) ==
    CASE ty = "Matrix2" -> Matrix2_determinant(self)
      [] ty = "Mat2"    -> Mat2_determinant(self)
      [] ty = "Matrix3" -> Matrix3_determinant(self)
      [] ty = "Mat3"    -> Mat3_determinant(self)
      [] ty = "Matrix4" -> Matrix4_determinant(self)
      [] ty = "Mat4"    -> Mat4_determinant(self)

inverse(ty, self) ==
    CASE ty = "Matrix2" -> Matrix2_inverse(self)
      [] ty = "Mat2"    -> Mat2_inverse(self)
      [] ty = "Matrix3" -> Matrix3_inverse(self)
      [] ty = "Mat3"    -> Mat3_inverse(self)
      [] ty = "Matrix4" -> Matrix4_inverse(self)
      [] ty = "Mat4"    -> Mat4_inverse(self)

mul(ty, self, rhs) ==
    CASE ty = "Matrix2" -> Matrix2_mul(self, rhs)
      [] ty = "Mat2"    -> Mat2_mul(self, rhs)
      [] ty = "Matrix3" -> Matrix3_mul(self, rhs)
      [] ty = "Mat3"    -> Mat3_mul(self, rhs)
      [] ty = "Matrix4" -> Matrix4_mul(self, rhs)
      [] ty = "Mat4"    -> Mat4_mul(self, rhs)

eq(ty, self, rhs) ==
    CASE ty = "Matrix2" -> Matrix2_eq(self, rhs)
      [] ty = "Matrix3" -> Matrix3_eq(self, rhs)
      [] ty = "Matrix4" -> Matrix4_eq(self, rhs)

\* transform_point with a vector of the matrix's own size (Mat2 has none)
transform_point(ty, self, point) ==
    CASE ty = "Matrix2" -> Matrix2_transform_point_Vector2(self, point)
      [] ty = "Matrix3" -> Matrix3_transform_point_Vector3(self, point)
      [] ty = "Mat3"    -> Mat3_transform_point_Vec3(self, point)
      [] ty = "Matrix4" -> Matrix4_transform_point_Vector4(self, point)
      [] ty = "Mat4"    -> Mat4_transform_point_Vec4(self, point)

\* transform_point with a point one dimension lower (implicit last 1)
transform_point_affine(ty, self, point) ==
    CASE ty = "Matrix3" -> Matrix3_transform_point_Vector2(self, point)
      [] ty = "Mat3"    -> Mat3_transform_point_Vec2(self, point)
      [] ty = "Matrix4" -> Matrix4_transform_point_Vector3(self, point)
      [] ty = "Mat4"    -> Mat4_transform_point_Vec3(self, point)

(***************************************************************************)
(* Bounds and the inputs drawn within them                                 *)
(***************************************************************************)
\* the calls of matrix-producing operations made on one object
MaxCalls == 2

\* an element is edited to an integer of -MaxElem .. MaxElem, or to a
\* special value
MaxElem == 1

\* angles: the rational points of the unit circle with parameter p/q,
\* |p|, q <= MaxAngle
MaxAngle == 2

FSeq(t) == [i \in 1..Len(t) |-> F(t[i])]

EditVals == {F(k) : k \in -MaxElem..MaxElem} \cup {NaN, PosInf, NegInf}

\* base matrices (column-major argument lists): the matrices of the
\* doc-tests, a dense one with pairwise different non-zero elements, and a
\* singular one with all rows equal
Bases(n) ==
    CASE n = 2 -> {FSeq(<<1, 2, 3, 4>>), FSeq(<<3, -2, 5, 7>>),
                   FSeq(<<2, 2, 3, 3>>)}
      [] n = 3 -> {FSeq(<<1, 0, 5, 2, 1, 6, 3, 4, 0>>),
                   FSeq(<<2, -1, 3, 1, 4, -2, -3, 5, 6>>),
                   FSeq(<<1, 1, 1, 2, 2, 2, 3, 3, 3>>)}
      [] n = 4 -> {FSeq(<<1, 0, 2, 2, 0, 2, 1, 0, 0, 1, 0, 1, 1, 2, 1, 4>>),
                   FSeq(<<-3, 2, 2, 2, -1, 1, -2, -3, -2, 1, 1, 2, 1, -1, -2, -2>>),
                   FSeq(<<1, 1, 1, 1, 2, 2, 2, 2, 3, 3, 3, 3, 4, 4, 4, 4>>)}

\* a base matrix, or a base matrix with one element edited
Receivers(n) ==
    Bases(n) \cup
    {[b EXCEPT ![i] = v] : b \in Bases(n), i \in 1..(n * n), v \in EditVals}

\* right-hand operands of the matrix product
Operands(n) == Bases(n)

\* vectors to transform, by number of components
Points(n) ==
    CASE n = 2 -> {Vector2_make(F(1), F(2)), Vector2_make(F(-3), F(5)),
                   Vector2_make(F(0), NaN)}
      [] n = 3 -> {Vector3_make(F(1), F(2), F(3)),
                   Vector3_make(F(-3), F(5), F(-2)),
                   Vector3_make(PosInf, F(0), F(1))}
      [] n = 4 -> {Vector4_make(F(1), F(2), F(3), F(4)),
                   Vector4_make(F(-3), F(5), F(-2), F(7)),
                   Vector4_make(F(1), F(0), NegInf, F(0))}

Angles ==
    {[cos |-> FDiv(F(q * q - p * p), F(q * q + p * p)),
      sin |-> FDiv(F(2 * p * q), F(q * q + p * p))] :
        <<p, q>> \in {pq \in (-MaxAngle..MaxAngle) \X (0..MaxAngle) :
                         pq[1] # 0 \/ pq[2] # 0}}

(***************************************************************************)
(* State                                                                   *)
(***************************************************************************)
VARIABLES
    ty,     \* the type of the object: one of MatrixTypes
    ctor,   \* the call that constructed it: [op, arg]
    m,      \* its array self.m; <<>> before construction
    hist,   \* the matrix-producing calls made on it, oldest first:
            \* [op, arg, pre, ret] with pre the array before the call
    out     \* the last read-only query on the current array: [op, arg, ret]

vars == <<ty, ctor, m, hist, out>>

None == <<>>

NoCall == [op |-> "none", arg |-> None, ret |-> None]

Constructed == ctor.op # "none"

Init ==
    /\ ty \in MatrixTypes
    /\ ctor = [op |-> "none", arg |-> None]
    /\ m = None
    /\ hist = <<>>
    /\ out = NoCall

(***************************************************************************)
(* Constructors                                                            *)
(***************************************************************************)
\* T::make(..) / T::construct(..)
Make ==
    /\ ~Constructed
    /\ \E e \in Receivers(Dim(ty)) :
          /\ m' = make(ty, e)
          /\ ctor' = [op |-> "make", arg |-> e]
    /\ UNCHANGED <<ty, hist, out>>

\* Matrix4::rotate_x(angle)
Rotate_x ==
    /\ ~Constructed
    /\ ty = "Matrix4"
    /\ \E angle \in Angles :
          /\ m' = Matrix4_rotate_x(angle)
          /\ ctor' = [op |-> "rotate_x", arg |-> angle]
    /\ UNCHANGED <<ty, hist, out>>

Mat4_rotate_y(angle) ==
    [Mat4_new EXCEPT
        ![Mat4_set_m.m11] = cos(angle),
        ![Mat4_set_m.m31] = FNeg(sin(angle)),
        ![Mat4_set_m.m31] = sin(angle),
        ![Mat4_set_m.m33] = cos(angle)]

\* Matrix4::rotate_y(angle) / Mat4::rotate_y(angle)
Rotate_y ==
    /\ ~Constructed
    /\ ty \in {"Matrix4", "Mat4"}
    /\ \E angle \in Angles :
          /\ m' = IF ty = "Matrix4" THEN Matrix4_rotate_y(angle)
                                    ELSE Mat4_rotate_y(angle)
          /\ ctor' = [op |-> "rotate_y", arg |-> angle]
    /\ UNCHANGED <<ty, hist, out>>

\* Matrix4::rotate_z(angle)
Rotate_z ==
    /\ ~Constructed
    /\ ty = "Matrix4"
    /\ \E angle \in Angles :
          /\ m' = Matrix4_rotate_z(angle)
          /\ ctor' = [op |-> "rotate_z", arg |-> angle]
    /\ UNCHANGED <<ty, hist, out>>

(***************************************************************************)
(* Calls that leave a new array in the object                              *)
(***************************************************************************)
Record(op, arg, ret) == Append(hist, [op |-> op, arg |-> arg, pre |-> m, ret |-> ret])

\* self.inverse()
Inverse ==
    /\ Constructed
    /\ Len(hist) < MaxCalls
    /\ LET r == inverse(ty, m)
       IN  /\ m' = r.m
           /\ hist' = Record("inverse", None, r.ret)
    /\ out' = NoCall
    /\ UNCHANGED <<ty, ctor>>

\* self.transpose()
Transpose ==
    /\ Constructed
    /\ Len(hist) < MaxCalls
    /\ m' = transpose(ty, m)
    /\ hist' = Record("transpose", None, None)
    /\ out' = NoCall
    /\ UNCHANGED <<ty, ctor>>

\* self * rhs, the product then being the current matrix
Mul ==
    /\ Constructed
    /\ Len(hist) < MaxCalls
    /\ \E rhs \in Operands(Dim(ty)) :
          LET r == mul(ty, m, rhs)
          IN  /\ m' = r
              /\ hist' = Record("mul", rhs, r)
    /\ out' = NoCall
    /\ UNCHANGED <<ty, ctor>>

(***************************************************************************)
(* Read-only queries                                                       *)
(***************************************************************************)
\* self.determinant()
Determinant ==
    /\ Constructed
    /\ out' = [op |-> "determinant", arg |-> None, ret |-> determinant(ty, m)]
    /\ UNCHANGED <<ty, ctor, m, hist>>

\* self.transform_point(&point), point of the matrix's size
TransformPoint ==
    /\ Constructed
    /\ ty # "Mat2"
    /\ \E point \in Points(Dim(ty)) :
          out' = [op |-> "transform_point", arg |-> point,
                  ret |-> transform_point(ty, m, point)]
    /\ UNCHANGED <<ty, ctor, m, hist>>

\* self.transform_point(&point), point one component shorter
TransformPointAffine ==
    /\ Constructed
    /\ Dim(ty) > 2
    /\ \E point \in Points(Dim(ty) - 1) :
          out' = [op |-> "transform_point_affine", arg |-> point,
                  ret |-> transform_point_affine(ty, m, point)]
    /\ UNCHANGED <<ty, ctor, m, hist>>

(***************************************************************************)
(* Specifications                                                          *)
(***************************************************************************)
\* determinant and inverse
NextInverse == Make \/ Inverse \/ Determinant

SpecInverse == Init /\ [][NextInverse]_vars

\* transpose
NextTranspose == Make \/ Transpose

SpecTranspose == Init /\ [][NextTranspose]_vars

\* the matrix product
NextMul == Make \/ Mul

SpecMul == Init /\ [][NextMul]_vars

\* transform_point
NextTransform == Make \/ TransformPoint \/ TransformPointAffine

SpecTransform == Init /\ [][NextTransform]_vars

\* the rotation constructors
NextRotate == Rotate_x \/ Rotate_y \/ Rotate_z \/ Transpose \/ Determinant

SpecRotate == Init /\ [][NextRotate]_vars

\* every operation
Next ==
    \/ Make \/ Rotate_x \/ Rotate_y \/ Rotate_z
    \/ Inverse \/ Transpose \/ Mul
    \/ Determinant \/ TransformPoint \/ TransformPointAffine

Spec == Init /\ [][Next]_vars

(***************************************************************************)
(* Reference mathematics the properties are stated against.  Elements are  *)
(* read through the accessors: At(t, M, r, c) is what m{r}{c}() returns.   *)
(***************************************************************************)
RC == <<<<"m11", "m12", "m13", "m14">>,
        <<"m21", "m22", "m23", "m24">>,
        <<"m31", "m32", "m33", "m34">>,
        <<"m41", "m42", "m43", "m44">>>>

At(t, M, r, c) == M[m_(t)[RC[r][c]]]

AllFinite(M) == \A i \in 1..Len(M) : IsFinite(M[i])

HasNaN(M) == \E i \in 1..Len(M) : IsNaN(M[i])

Idx(n) == [i \in 1..n |-> i]

RemoveAt(s, j) == [i \in 1..(Len(s) - 1) |-> IF i < j THEN s[i] ELSE s[i + 1]]

RECURSIVE SumSeq(_)
SumSeq(s) == IF Len(s) = 0 THEN Zero
             ELSE FAdd(SumSeq(SubSeq(s, 1, Len(s) - 1)), s[Len(s)])

Sign(k) == IF k % 2 = 0 THEN One ELSE F(-1)

\* the determinant of the sub-matrix of M on the given rows and columns,
\* by Laplace expansion along its first row
RECURSIVE SubDet(_, _, _, _)
SubDet(t, M, rows, cols) ==
    IF Len(rows) = 0 THEN One
    ELSE SumSeq([j \in 1..Len(cols) |->
                    FMul(Sign(j + 1),
                         FMul(At(t, M, rows[1], cols[j]),
                              SubDet(t, M, Tail(rows), RemoveAt(cols, j))))])

MathDet(t, M) == SubDet(t, M, Idx(Dim(t)), Idx(Dim(t)))

\* the signed cofactor of element (r, c)
Cofactor(t, M, r, c) ==
    FMul(Sign(r + c),
         SubDet(t, M, RemoveAt(Idx(Dim(t)), r), RemoveAt(Idx(Dim(t)), c)))

\* element (r, c) of the product A B
ProdAt(t, A, B, r, c) ==
    SumSeq([k \in 1..Dim(t) |-> FMul(At(t, A, r, k), At(t, B, k, c))])

IsIdentityProduct(t, A, B) ==
    \A r, c \in 1..Dim(t) :
        ProdAt(t, A, B, r, c) = (IF r = c THEN One ELSE Zero)

\* the array after the k-th recorded call
After(k) == IF k = Len(hist) THEN m ELSE hist[k + 1].pre

\* M is the inverse of A: the adjugate of A scaled by 1/det, and a two-sided
\* inverse under the matrix product
IsAdjugateInverse(t, A, M) ==
    /\ \A r, c \in 1..Dim(t) :
          At(t, M, r, c) = FMul(Cofactor(t, A, c, r), FDiv(One, MathDet(t, A)))
    /\ IsIdentityProduct(t, A, M)
    /\ IsIdentityProduct(t, M, A)

(***************************************************************************)
(* C1  When determinant() of a matrix is exactly 0, inverse() returns      *)
(* false and leaves every element as it was, for all six matrix types;     *)
(* a second call does the same.                                            *)
(***************************************************************************)
C1_SingularInverseRefused ==
    \A k \in 1..Len(hist) :
        (hist[k].op = "inverse" /\ FEq(determinant(ty, hist[k].pre), Zero))
            => (hist[k].ret = FALSE /\ After(k) = hist[k].pre)

C1_Witness ==
    /\ ty = "Matrix4"
    /\ Len(hist) = 2
    /\ \A k \in 1..2 : hist[k].op = "inverse" /\ hist[k].ret = FALSE
    /\ FEq(determinant(ty, ctor.arg), Zero)
    /\ m = ctor.arg

(***************************************************************************)
(* C2  For a Matrix4 (Mat4) with finite elements and non-zero determinant, *)
(* inverse() returns true and leaves the adjugate scaled by 1/det: each    *)
(* element (r, c) is the signed cofactor of (c, r) over the determinant,   *)
(* and the old and new matrices multiply to the identity on both sides.    *)
(***************************************************************************)
C2_Matrix4InverseIsAdjugate ==
    \A k \in 1..Len(hist) :
        (/\ ty \in {"Matrix4", "Mat4"}
         /\ hist[k].op = "inverse"
         /\ AllFinite(hist[k].pre)
         /\ MathDet(ty, hist[k].pre) # Zero)
            => (/\ hist[k].ret = TRUE
                /\ IsAdjugateInverse(ty, hist[k].pre, After(k)))

\* the doc-test of Matrix4::inverse
C2_Witness ==
    /\ ty = "Matrix4"
    /\ Len(hist) = 1
    /\ hist[1].op = "inverse"
    /\ hist[1].ret = TRUE
    /\ hist[1].pre = FSeq(<<1, 0, 2, 2, 0, 2, 1, 0, 0, 1, 0, 1, 1, 2, 1, 4>>)
    /\ m = <<F(-2), F(1), F(-8), F(3),
             FDiv(F(-1), F(2)), FDiv(F(1), F(2)), F(-1), FDiv(F(1), F(2)),
             F(1), F(0), F(2), F(-1),
             FDiv(F(1), F(2)), FDiv(F(-1), F(2)), F(2), FDiv(F(-1), F(2))>>

(***************************************************************************)
(* C3  For a Matrix2 or Matrix3 (Mat2, Mat3) with finite elements and      *)
(* non-zero determinant, inverse() returns true and leaves the inverse:    *)
(* for Matrix2 the array (m22, -m21, -m12, m11)/det, for Matrix3 the       *)
(* signed cofactors of the transposed positions over det; the old matrix   *)
(* times the new one is the identity.                                      *)
(***************************************************************************)
C3_SmallInverseIsAdjugate ==
    \A k \in 1..Len(hist) :
        (/\ Dim(ty) \in {2, 3}
         /\ hist[k].op = "inverse"
         /\ AllFinite(hist[k].pre)
         /\ MathDet(ty, hist[k].pre) # Zero)
            => LET A == hist[k].pre
                   d == MathDet(ty, A)
               IN  /\ hist[k].ret = TRUE
                   /\ IsAdjugateInverse(ty, A, After(k))
                   /\ Dim(ty) = 2 =>
                         After(k) = <<FDiv(At(ty, A, 2, 2), d),
                                      FDiv(FNeg(At(ty, A, 2, 1)), d),
                                      FDiv(FNeg(At(ty, A, 1, 2)), d),
                                      FDiv(At(ty, A, 1, 1), d)>>

\* the doc-test of Matrix3::inverse
C3_Witness ==
    /\ ty = "Matrix3"
    /\ Len(hist) = 1
    /\ hist[1].op = "inverse"
    /\ hist[1].ret = TRUE
    /\ hist[1].pre = FSeq(<<1, 0, 5, 2, 1, 6, 3, 4, 0>>)
    /\ m = FSeq(<<-24, 20, -5, 18, -15, 4, 5, -4, 1>>)

(***************************************************************************)
(* C4  determinant() of a matrix with finite elements is the mathematical  *)
(* determinant of the matrix read through its m{row}{col} accessors, for   *)
(* every size.                                                             *)
(***************************************************************************)
C4_DeterminantIsMathematical ==
    (out.op = "determinant" /\ AllFinite(m)) => out.ret = MathDet(ty, m)

\* a Matrix4 whose four first-row terms are all non-zero
C4_Witness ==
    /\ ty = "Matrix4"
    /\ out.op = "determinant"
    /\ AllFinite(m)
    /\ out.ret # Zero
    /\ \A c \in 1..4 :
          /\ At(ty, m, 1, c) # Zero
          /\ Cofactor(ty, m, 1, c) # Zero

(***************************************************************************)
(* C5  self * rhs is the matrix product: element (r, c) of the result is   *)
(* the sum over k of self(r, k) * rhs(k, c), for Matrix2, Matrix3 and      *)
(* Matrix4.                                                                *)
(***************************************************************************)
C5_MulIsMatrixProduct ==
    \A k \in 1..Len(hist) :
        hist[k].op = "mul" =>
            /\ After(k) = hist[k].ret
            /\ \A r, c \in 1..Dim(ty) :
                  At(ty, hist[k].ret, r, c)
                      = ProdAt(ty, hist[k].pre, hist[k].arg, r, c)

\* a Matrix4 product that differs from the element-wise product and from
\* the product taken in the other order
C5_Witness ==
    /\ ty = "Matrix4"
    /\ Len(hist) = 1
    /\ hist[1].op = "mul"
    /\ AllFinite(hist[1].pre)
    /\ m # [i \in 1..16 |-> FMul(hist[1].pre[i], hist[1].arg[i])]
    /\ \E r, c \in 1..4 :
          At(ty, m, r, c) # ProdAt(ty, hist[1].arg, hist[1].pre, r, c)

(***************************************************************************)
(* C6  transform_point: for a point one component shorter than the matrix  *)
(* the result is the affine form (m11 x + m12 y + m13, ...), equal to the  *)
(* leading components of the same-size transform of the point extended by  *)
(* 1; for a point of the matrix's size it is the matrix-vector product.    *)
(***************************************************************************)
Comps(n, v) ==
    CASE n = 2 -> <<v.x, v.y>>
      [] n = 3 -> <<v.x, v.y, v.z>>
      [] n = 4 -> <<v.x, v.y, v.z, v.w>>

Vec(s) ==
    CASE Len(s) = 2 -> Vector2_make(s[1], s[2])
      [] Len(s) = 3 -> Vector3_make(s[1], s[2], s[3])
      [] Len(s) = 4 -> Vector4_make(s[1], s[2], s[3], s[4])

C6_TransformPointForms ==
    LET n == Dim(ty)
    IN  /\ out.op = "transform_point" =>
              Comps(n, out.ret) =
                  [r \in 1..n |->
                      SumSeq([k \in 1..n |->
                                FMul(At(ty, m, r, k), Comps(n, out.arg)[k])])]
        /\ out.op = "transform_point_affine" =>
              LET p == Comps(n - 1, out.arg)
                  full == transform_point(ty, m, Vec(Append(p, One)))
              IN  /\ Comps(n - 1, out.ret) =
                         [r \in 1..(n - 1) |->
                             FAdd(SumSeq([k \in 1..(n - 1) |->
                                            FMul(At(ty, m, r, k), p[k])]),
                                  At(ty, m, r, n))]
                  /\ Comps(n - 1, out.ret) = SubSeq(Comps(n, full), 1, n - 1)

\* a Matrix4 with a non-zero translation column applied to a Vector3
C6_Witness ==
    /\ ty = "Matrix4"
    /\ out.op = "transform_point_affine"
    /\ AllFinite(m)
    /\ out.arg = Vector3_make(F(-3), F(5), F(-2))
    /\ \A r \in 1..3 : At(ty, m, r, 4) # Zero
    /\ out.ret # Vector3_make(Zero, Zero, Zero)

(***************************************************************************)
(* C7  transpose() transposes in place: afterwards element (r, c) is the   *)
(* former element (c, r), so the diagonal is untouched and every           *)
(* off-diagonal pair is exchanged once.                                    *)
(***************************************************************************)
C7_TransposeInPlace ==
    \A k \in 1..Len(hist) :
        hist[k].op = "transpose" =>
            \A r, c \in 1..Dim(ty) :
                At(ty, After(k), r, c) = At(ty, hist[k].pre, c, r)

\* a Matrix4 all six of whose off-diagonal pairs differ
C7_Witness ==
    /\ ty = "Matrix4"
    /\ Len(hist) = 1
    /\ hist[1].op = "transpose"
    /\ \A r, c \in 1..4 :
          r # c => At(ty, hist[1].pre, r, c) # At(ty, hist[1].pre, c, r)

(***************************************************************************)
(* C8  Transposing twice gives back the original: the array is element for *)
(* element the one before, and the result compares == to the original      *)
(* under PartialEq whenever no element is NaN.                             *)
(***************************************************************************)
TransposedTwice ==
    /\ ty \in NewTypes
    /\ Len(hist) = 2
    /\ hist[1].op = "transpose"
    /\ hist[2].op = "transpose"

C8_TransposeInvolutionNoNaN ==
    TransposedTwice =>
        /\ m = hist[1].pre
        /\ ~HasNaN(hist[1].pre) => eq(ty, m, hist[1].pre)

\* a non-symmetric Matrix3 holding an infinity, transposed twice
C8_Witness ==
    /\ TransposedTwice
    /\ ty = "Matrix3"
    /\ ~HasNaN(hist[1].pre)
    /\ \E i \in 1..9 : IsInfinite(hist[1].pre[i])
    /\ hist[2].pre # hist[1].pre
    /\ eq(ty, m, hist[1].pre)

\* C8 as the spec words it: for every matrix, whatever its elements, the
\* twice-transposed matrix compares == to the original
C8_AsStated ==
    TransposedTwice => eq(ty, m, hist[1].pre)

(***************************************************************************)
(* C9  The matrix product is associative: (A * B) * C = A * (B * C) for    *)
(* matrices of finite elements (exactly, rounding aside).                  *)
(***************************************************************************)
C9_MulAssociative ==
    \A k \in 1..(Len(hist) - 1) :
        (/\ hist[k].op = "mul"
         /\ hist[k + 1].op = "mul"
         /\ AllFinite(hist[k].pre))
            => After(k + 1)
                  = mul(ty, hist[k].pre, mul(ty, hist[k].arg, hist[k + 1].arg))

\* three Matrix4 values that do not commute
C9_Witness ==
    /\ ty = "Matrix4"
    /\ Len(hist) = 2
    /\ hist[1].op = "mul"
    /\ hist[2].op = "mul"
    /\ AllFinite(hist[1].pre)
    /\ hist[1].arg # hist[2].arg
    /\ mul(ty, hist[1].arg, hist[2].arg) # mul(ty, hist[2].arg, hist[1].arg)
    /\ mul(ty, hist[1].pre, hist[1].arg) # mul(ty, hist[1].arg, hist[1].pre)

(***************************************************************************)
(* C10 rotate_x, rotate_y and rotate_z build a rotation matrix for every   *)
(* angle: the matrix times its transpose is the identity and its           *)
(* determinant is 1.                                                       *)
(***************************************************************************)
Rotations == {"rotate_x", "rotate_y", "rotate_z"}

C10_RotationsOrthonormal ==
    ctor.op \in Rotations =>
        /\ (Len(hist) = 1 /\ hist[1].op = "transpose") =>
              IsIdentityProduct(ty, hist[1].pre, m)
        /\ (hist = <<>> /\ out.op = "determinant") => out.ret = One

\* rotate_x and rotate_z alone do build rotation matrices
C10_RotateXZOrthonormal ==
    ctor.op \in {"rotate_x", "rotate_z"} =>
        /\ (Len(hist) = 1 /\ hist[1].op = "transpose") =>
              IsIdentityProduct(ty, hist[1].pre, m)
        /\ (hist = <<>> /\ out.op = "determinant") => out.ret = One

(***************************************************************************)
(* Vectors: Vector2/Vector3/Vector4 (src/src/vector*.rs) and the older     *)
(* Vec2/Vec3/Vec4 (src/src/vec*.rs).  A vector is the record of its        *)
(* components x, y (, z (, w)).                                            *)
(***************************************************************************)
VectorTypes == {"Vector2", "Vector3", "Vector4", "Vec2", "Vec3", "Vec4"}

NewVectorTypes == {"Vector2", "Vector3", "Vector4"}

\* the number of components
Size(t) ==
    CASE t \in {"Vector2", "Vec2"} -> 2
      [] t \in {"Vector3", "Vec3"} -> 3
      [] t \in {"Vector4", "Vec4"} -> 4

\* panic!("Invalid index for VectorN: {}", index)
Panic == [panic |-> "Invalid index"]

\* common::is_valid / math::is_valid
is_valid(x) == ~(IsNaN(x) \/ IsInfinite(x))

\* impl Index<u32> for Vector2
Vector2_index(self, index) ==
    CASE index = 0 -> self.x
      [] index = 1 -> self.y
      [] OTHER -> Panic

\* impl Index<u32> for Vector3
Vector3_index(self, index) ==
    CASE index = 0 -> self.x
      [] index = 1 -> self.y
      [] index = 2 -> self.z
      [] OTHER -> Panic

\* impl Index<u32> for Vector4
Vector4_index(self, index) ==
    CASE index = 0 -> self.x
      [] index = 1 -> self.y
      [] index = 2 -> self.z
      [] index = 3 -> self.w
      [] OTHER -> Panic

\* for i in 0..2 { if !common::is_valid(self[i]) { return false; } } true
Vector2_is_valid(self) ==
    \A i \in 0..1 : is_valid(Vector2_index(self, i))

Vector3_is_valid(self) ==
    is_valid(self.x) /\ is_valid(self.y) /\ is_valid(self.z)

\* for i in 0..4 { if !common::is_valid(self[i]) { return false; } } true
Vector4_is_valid(self) ==
    \A i \in 0..3 : is_valid(Vector4_index(self, i))

Vec2_is_valid(self) ==
    is_valid(self.x) /\ is_valid(self.y)

Vec3_is_valid(self) ==
    is_valid(self.x) /\ is_valid(self.y) /\ is_valid(self.z)

Vec4_is_valid(self) ==
    is_valid(self.x) /\ is_valid(self.y) /\ is_valid(self.z)

(***************************************************************************)
(* The vector as the object of the state machine: ty is its type, m its    *)
(* record of components.                                                   *)
(***************************************************************************)
\* VectorN::make / Vector3::construct / VecN::construct on the list e
vmake(t, e) ==
    CASE Size(t) = 2 -> Vector2_make(e[1], e[2])
      [] Size(t) = 3 -> Vector3_make(e[1], e[2], e[3])
      [] Size(t) = 4 -> Vector4_make(e[1], e[2], e[3], e[4])

\* component values, special values included
Comp == {F(0), F(1), F(-2), NaN, PosInf, NegInf}

\* the lists of n components over S
Lists(n, S) == [1..n -> S]

InitVector ==
    /\ ty \in VectorTypes
    /\ ctor = [op |-> "none", arg |-> None]
    /\ m = None
    /\ hist = <<>>
    /\ out = NoCall

\* VectorN::make(..) with any component values
VMakeAny ==
    /\ ~Constructed
    /\ \E e \in Lists(Size(ty), Comp) :
          /\ m' = vmake(ty, e)
          /\ ctor' = [op |-> "make", arg |-> e]
    /\ UNCHANGED <<ty, hist, out>>

\* self.is_valid()
IsValid ==
    /\ Constructed
    /\ out' = [op |-> "is_valid", arg |-> None,
               ret |-> CASE ty = "Vector2" -> Vector2_is_valid(m)
                         [] ty = "Vector3" -> Vector3_is_valid(m)
                         [] ty = "Vector4" -> Vector4_is_valid(m)
                         [] ty = "Vec2"    -> Vec2_is_valid(m)
                         [] ty = "Vec3"    -> Vec3_is_valid(m)
                         [] ty = "Vec4"    -> Vec4_is_valid(m)]
    /\ UNCHANGED <<ty, ctor, m, hist>>

NextValid == VMakeAny \/ IsValid

SpecValid == InitVector /\ [][NextValid]_vars

(***************************************************************************)
(* C11 is_valid() on a vector is true exactly when every component is      *)
(* finite, for Vector2/3/4 and Vec2/3/4; a 4-component vector whose w is   *)
(* NaN or infinite is invalid.                                             *)
(***************************************************************************)
C11_IsValidIffAllFinite ==
    out.op = "is_valid" =>
        (out.ret <=> \A i \in 1..Size(ty) : IsFinite(ctor.arg[i]))

\* the four-component type of the newer generation does report it
C11_Vector4IsValidIffAllFinite ==
    (out.op = "is_valid" /\ ty # "Vec4") =>
        (out.ret <=> \A i \in 1..Size(ty) : IsFinite(ctor.arg[i]))

(***************************************************************************)
(* Ordering, square root and machine epsilon of f32                        *)
(***************************************************************************)
\* n/d < p/q for non-negative rationals, by comparing integer parts and
\* then the reciprocals of the fractional parts (no cross-multiplication)
RECURSIVE LessPos(_, _, _, _)
LessPos(n, d, p, q) ==
    IF n \div d # p \div q THEN n \div d < p \div q
    ELSE IF p % q = 0 THEN FALSE
    ELSE IF n % d = 0 THEN TRUE
    ELSE LessPos(q, p % q, d, n % d)

\* f32 < f32 : false when a NaN is involved
FLt(x, y) ==
    IF IsNaN(x) \/ IsNaN(y) THEN FALSE
    ELSE IF x.d = 0 \/ y.d = 0
         THEN x # y /\ (x = NegInf \/ y = PosInf)
    ELSE IF x.n < 0 /\ y.n >= 0 THEN TRUE
    ELSE IF x.n >= 0 /\ y.n < 0 THEN FALSE
    ELSE IF x.n >= 0 THEN LessPos(x.n, x.d, y.n, y.d)
    ELSE LessPos(-y.n, y.d, -x.n, x.d)

\* f32 > f32
FGt(x, y) == FLt(y, x)

\* the largest integer whose square is at most k
RECURSIVE ISqrt(_)
ISqrt(k) ==
    IF k < 2 THEN k
    ELSE Let(2 * ISqrt(k \div 4), LAMBDA r :
         IF (r + 1) * (r + 1) <= k THEN r + 1 ELSE r)

\* f32::sqrt : exact when the root is rational, otherwise rounded down to
\* a multiple of 1/d
sqrt(x) ==
    IF IsNaN(x) \/ x = NegInf THEN NaN
    ELSE IF x = PosInf THEN PosInf
    ELSE IF x.n < 0 THEN NaN
    ELSE IF ISqrt(x.n) * ISqrt(x.n) = x.n /\ ISqrt(x.d) * ISqrt(x.d) = x.d
         THEN [n |-> ISqrt(x.n), d |-> ISqrt(x.d)]
    ELSE Norm(ISqrt(x.n * x.d), x.d)

\* std::f32::EPSILON = 2^-23
EPSILON == [n |-> 1, d |-> 8388608]

(***************************************************************************)
(* Magnitude and normalisation                                             *)
(***************************************************************************)
Vector2_mag_sq(self) ==
    FAdd(FMul(self.x, self.x), FMul(self.y, self.y))

Vector2_mag(self) == sqrt(Vector2_mag_sq(self))

\* norm(&mut self) -> f32 : the returned length and the vector left in self
\* Vector2::norm, but the length is compared with 1.0
Vector2_norm_above_one(self) ==
    Let(Vector2_mag(self), LAMBDA length :
    IF FGt(length, F(1))
    THEN [ret |-> length,
          v |-> [self EXCEPT !.x = FDiv(self.x, length),
                             !.y = FDiv(self.y, length)]]
    ELSE [ret |-> F(0), v |-> self])

Vector2_norm(self) ==
    Let(Vector2_mag(self), LAMBDA length :
    IF FGt(length, EPSILON)
    THEN [ret |-> length,
          v |-> [self EXCEPT !.x = FDiv(self.x, length),
                             !.y = FDiv(self.y, length)]]
    ELSE [ret |-> F(0), v |-> self])

Vector3_magnitude_squared(self) ==
    FAdd(FAdd(FMul(self.x, self.x), FMul(self.y, self.y)),
         FMul(self.z, self.z))

Vector3_magnitude(self) == sqrt(Vector3_magnitude_squared(self))

\* normalize(&mut self) -> f32 (called norm by matrix4.rs)
\* Vector3::normalize, but the division is made whatever the length
Vector3_normalize_unguarded(self) ==
    Let(Vector3_magnitude(self), LAMBDA length :
    IF TRUE
    THEN [ret |-> length,
          v |-> [self EXCEPT !.x = FDiv(self.x, length),
                             !.y = FDiv(self.y, length),
                             !.z = FDiv(self.z, length)]]
    ELSE [ret |-> F(0), v |-> self])

Vector3_normalize(self) ==
    Let(Vector3_magnitude(self), LAMBDA length :
    IF FGt(length, EPSILON)
    THEN [ret |-> length,
          v |-> [self EXCEPT !.x = FDiv(self.x, length),
                             !.y = FDiv(self.y, length),
                             !.z = FDiv(self.z, length)]]
    ELSE [ret |-> F(0), v |-> self])

Vector4_mag_sq(self) ==
    FAdd(FAdd(FAdd(FMul(self.x, self.x), FMul(self.y, self.y)),
              FMul(self.z, self.z)),
         FMul(self.w, self.w))

Vector4_mag(self) == sqrt(Vector4_mag_sq(self))

\* Vector4::norm, but the division is made whatever the length
Vector4_norm_unguarded(self) ==
    Let(Vector4_mag(self), LAMBDA length :
    IF TRUE
    THEN [ret |-> length,
          v |-> [self EXCEPT !.x = FDiv(self.x, length),
                             !.y = FDiv(self.y, length),
                             !.z = FDiv(self.z, length),
                             !.w = FDiv(self.w, length)]]
    ELSE [ret |-> F(0), v |-> self])

Vector4_norm(self) ==
    Let(Vector4_mag(self), LAMBDA length :
    IF FGt(length, EPSILON)
    THEN [ret |-> length,
          v |-> [self EXCEPT !.x = FDiv(self.x, length),
                             !.y = FDiv(self.y, length),
                             !.z = FDiv(self.z, length),
                             !.w = FDiv(self.w, length)]]
    ELSE [ret |-> F(0), v |-> self])

(***************************************************************************)
(* look_at                                                                 *)
(***************************************************************************)
\* impl Sub<Vector3> for Vector3
Vector3_sub(self, rhs) ==
    Vector3_make(FSub(self.x, rhs.x), FSub(self.y, rhs.y), FSub(self.z, rhs.z))

\* Vector3::cross, but the terms of the x component are added
Vector3_cross_added(a, b) ==
    Vector3_make(FAdd(FMul(a.y, b.z), FMul(a.z, b.y)),
                 FSub(FMul(a.z, b.x), FMul(a.x, b.z)),
                 FSub(FMul(a.x, b.y), FMul(a.y, b.x)))

Vector3_cross(a, b) ==
    Vector3_make(FSub(FMul(a.y, b.z), FMul(a.z, b.y)),
                 FSub(FMul(a.z, b.x), FMul(a.x, b.z)),
                 FSub(FMul(a.x, b.y), FMul(a.y, b.x)))

\* Matrix4::look_at(position, target, up); `forward.norm()` and
\* `right.norm()` leave the normalised vector in the local
Matrix4_look_at(position, target, up) ==
    Let(Vector3_normalize(Vector3_sub(target, position)).v, LAMBDA forward :
    Let(Vector3_normalize(Vector3_cross(forward, up)).v, LAMBDA right :
    Let(Vector3_cross(right, forward), LAMBDA up2 :
        Matrix4_make(right.x, right.y, right.z, F(0),
                     up2.x, up2.y, up2.z, F(0),
                     FNeg(forward.x), FNeg(forward.y), FNeg(forward.z), F(0),
                     position.x, position.y, position.z, F(1)))))

\* Mat4::look_at(position, target, up), on Vec3 (vec3.rs is vector3.rs
\* under the older names)
Mat4_look_at(position, target, up) ==
    Let(Vector3_normalize(Vector3_sub(target, position)).v, LAMBDA forward :
    Let(Vector3_normalize(Vector3_cross(forward, up)).v, LAMBDA right :
    Let(Vector3_cross(right, forward), LAMBDA up2 :
        Mat4_construct(right.x, right.y, right.z, F(0),
                       up2.x, up2.y, up2.z, F(0),
                       FNeg(forward.x), FNeg(forward.y), FNeg(forward.z), F(0),
                       position.x, position.y, position.z, F(1)))))

\* for i in 0..16 { if !common::is_valid(self.m[i]) { return false; } } true
Matrix4_is_valid(self) ==
    \A i \in 0..15 : is_valid(self[i + 1])

\* Mat4::is_valid : the conjunction over the sixteen accessors
Mat4_is_valid(self) ==
    /\ is_valid(self[Mat4_m.m11]) /\ is_valid(self[Mat4_m.m21])
    /\ is_valid(self[Mat4_m.m31]) /\ is_valid(self[Mat4_m.m41])
    /\ is_valid(self[Mat4_m.m12]) /\ is_valid(self[Mat4_m.m22])
    /\ is_valid(self[Mat4_m.m32]) /\ is_valid(self[Mat4_m.m42])
    /\ is_valid(self[Mat4_m.m13]) /\ is_valid(self[Mat4_m.m23])
    /\ is_valid(self[Mat4_m.m33]) /\ is_valid(self[Mat4_m.m43])
    /\ is_valid(self[Mat4_m.m14]) /\ is_valid(self[Mat4_m.m24])
    /\ is_valid(self[Mat4_m.m34]) /\ is_valid(self[Mat4_m.m44])

\* positions, targets and up vectors handed to look_at
LookVecs ==
    {Vector3_make(F(e[1]), F(e[2]), F(e[3])) :
        e \in {<<0, 0, 0>>, <<0, 1, 0>>, <<0, 0, 1>>, <<1, 0, 0>>,
               <<0, 2, 0>>, <<3, 4, 0>>, <<0, -1, 0>>}}
    \cup {Vector3_make(NaN, F(0), F(0)), Vector3_make(F(0), PosInf, F(0))}

\* Matrix4::look_at(position, target, up) / Mat4::look_at(..)
LookAt ==
    /\ ~Constructed
    /\ ty \in {"Matrix4", "Mat4"}
    /\ \E position \in LookVecs, target \in LookVecs, up \in LookVecs :
          /\ m' = IF ty = "Matrix4" THEN Matrix4_look_at(position, target, up)
                                    ELSE Mat4_look_at(position, target, up)
          /\ ctor' = [op |-> "look_at", arg |-> <<position, target, up>>]
    /\ UNCHANGED <<ty, hist, out>>

\* self.is_valid() on a 4x4 matrix
MatIsValid ==
    /\ Constructed
    /\ ty \in {"Matrix4", "Mat4"}
    /\ out' = [op |-> "is_valid", arg |-> None,
               ret |-> IF ty = "Matrix4" THEN Matrix4_is_valid(m)
                                         ELSE Mat4_is_valid(m)]
    /\ UNCHANGED <<ty, ctor, m, hist>>

NextLookAt == LookAt \/ MatIsValid

SpecLookAt == Init /\ [][NextLookAt]_vars

\* all three components finite
Finite3(v) == IsFinite(v.x) /\ IsFinite(v.y) /\ IsFinite(v.z)

\* a and b are linearly dependent (one of them may be the zero vector)
Parallel(a, b) ==
    /\ FEq(FMul(a.y, b.z), FMul(a.z, b.y))
    /\ FEq(FMul(a.z, b.x), FMul(a.x, b.z))
    /\ FEq(FMul(a.x, b.y), FMul(a.y, b.x))

\* the look_at call was given finite vectors and its view direction
\* target - position is parallel to up
DegenerateLookAt ==
    /\ ctor.op = "look_at"
    /\ \A i \in 1..3 : Finite3(ctor.arg[i])
    /\ Parallel([x |-> FSub(ctor.arg[2].x, ctor.arg[1].x),
                 y |-> FSub(ctor.arg[2].y, ctor.arg[1].y),
                 z |-> FSub(ctor.arg[2].z, ctor.arg[1].z)], ctor.arg[3])

Normalize ==
    /\ Constructed
    /\ Len(hist) < MaxCalls
    /\ Let(CASE ty \in {"Vector2", "Vec2"} -> Vector2_norm(m)
             [] ty \in {"Vector3", "Vec3"} -> Vector3_normalize(m)
             [] ty \in {"Vector4", "Vec4"} -> Vector4_norm(m), LAMBDA r :
          /\ m' = r.v
          /\ hist' = Record("normalize", None, r.ret))
    /\ out' = NoCall
    /\ UNCHANGED <<ty, ctor>>

NextNormalize == VMakeAny \/ Normalize

SpecNormalize == InitVector /\ [][NextNormalize]_vars

\* the magnitude of a vector of the constructed type
Magnitude(v) ==
    CASE ty \in {"Vector2", "Vec2"} -> Vector2_mag(v)
      [] ty \in {"Vector3", "Vec3"} -> Vector3_magnitude(v)
      [] ty \in {"Vector4", "Vec4"} -> Vector4_mag(v)

(***************************************************************************)
(* C13: normalize()/norm() on a vector whose magnitude is not greater than *)
(* f32 machine epsilon (the zero vector in particular) returns 0 and       *)
(* leaves every component exactly as it was; nothing is divided, so no NaN *)
(* and no infinity is produced.                                            *)
(***************************************************************************)
C13_NormalizeGuarded ==
    \A k \in 1..Len(hist) :
        (hist[k].op = "normalize" /\ ~FGt(Magnitude(hist[k].pre), EPSILON)) =>
            /\ hist[k].ret = F(0)
            /\ After(k) = hist[k].pre

\* the zero vector of four components was normalised
C13_Witness ==
    /\ ty = "Vector4"
    /\ Len(hist) >= 1
    /\ hist[1].op = "normalize"
    /\ hist[1].pre = Vector4_make(F(0), F(0), F(0), F(0))
    /\ m = hist[1].pre

(***************************************************************************)
(* min, max and clamp                                                      *)
(***************************************************************************)
\* f32::min : the smaller argument, and the other one when one is NaN
FMin(x, y) ==
    IF IsNaN(x) THEN y ELSE IF IsNaN(y) THEN x
    ELSE IF FLt(y, x) THEN y ELSE x

\* f32::max : the larger argument, and the other one when one is NaN
FMax(x, y) ==
    IF IsNaN(x) THEN y ELSE IF IsNaN(y) THEN x
    ELSE IF FLt(x, y) THEN y ELSE x

Vector2_min(a, b) == Vector2_make(FMin(a.x, b.x), FMin(a.y, b.y))

Vector2_max(a, b) == Vector2_make(FMax(a.x, b.x), FMax(a.y, b.y))

\* clamp(&mut self, a, b) : the vector left in self; self.set(..) assigns
\* the components of result
Vector2_clamp(self, a, b) ==
    Let(Vector2_min(a, b), LAMBDA low :
    Let(Vector2_max(a, b), LAMBDA high :
    Let(Vector2_max(low, Vector2_min(self, high)), LAMBDA result :
        [self EXCEPT !.x = result.x, !.y = result.y])))

Vector3_min(a, b) ==
    Vector3_make(FMin(a.x, b.x), FMin(a.y, b.y), FMin(a.z, b.z))

Vector3_max(a, b) ==
    Vector3_make(FMax(a.x, b.x), FMax(a.y, b.y), FMax(a.z, b.z))

\* Vector3::clamp, but a and b are taken as the low and the high bound as given
Vector3_clamp_ordered(self, a, b) ==
    Let(a, LAMBDA low :
    Let(b, LAMBDA high :
    Let(Vector3_max(low, Vector3_min(self, high)), LAMBDA result :
        [self EXCEPT !.x = result.x, !.y = result.y, !.z = result.z])))

Vector3_clamp(self, a, b) ==
    Let(Vector3_min(a, b), LAMBDA low :
    Let(Vector3_max(a, b), LAMBDA high :
    Let(Vector3_max(low, Vector3_min(self, high)), LAMBDA result :
        [self EXCEPT !.x = result.x, !.y = result.y, !.z = result.z])))

Vector4_min(a, b) ==
    Vector4_make(FMin(a.x, b.x), FMin(a.y, b.y), FMin(a.z, b.z), FMin(a.w, b.w))

Vector4_max(a, b) ==
    Vector4_make(FMax(a.x, b.x), FMax(a.y, b.y), FMax(a.z, b.z), FMax(a.w, b.w))

\* Vector4::clamp, but only the upper bound is applied
Vector4_clamp_upper(self, a, b) ==
    Let(Vector4_min(a, b), LAMBDA low :
    Let(Vector4_max(a, b), LAMBDA high :
    Let(Vector4_min(self, high), LAMBDA result :
        [self EXCEPT !.x = result.x, !.y = result.y,
                     !.z = result.z, !.w = result.w])))

Vector4_clamp(self, a, b) ==
    Let(Vector4_min(a, b), LAMBDA low :
    Let(Vector4_max(a, b), LAMBDA high :
    Let(Vector4_max(low, Vector4_min(self, high)), LAMBDA result :
        [self EXCEPT !.x = result.x, !.y = result.y,
                     !.z = result.z, !.w = result.w])))

\* self.clamp(&a, &b) on a vector of type t
clamp(t, self, a, b) ==
    CASE t = "Vector2" -> Vector2_clamp(self, a, b)
      [] t = "Vector3" -> Vector3_clamp(self, a, b)
      [] t = "Vector4" -> Vector4_clamp(self, a, b)

\* the vectors handed to clamp as bounds
ClampBounds(t) ==
    {vmake(t, e) : e \in {<<NaN, F(1), F(-2), PosInf>>,
                          <<F(0), NaN, F(1), NegInf>>,
                          <<F(1), F(-2), NaN, F(0)>>}}

\* self.clamp(&a, &b)
Clamp ==
    /\ Constructed
    /\ ty \in NewVectorTypes
    /\ Len(hist) < MaxCalls
    /\ \E a \in ClampBounds(ty), b \in ClampBounds(ty) :
          /\ m' = clamp(ty, m, a, b)
          /\ hist' = Record("clamp", <<a, b>>, None)
    /\ out' = NoCall
    /\ UNCHANGED <<ty, ctor>>

NextClamp == VMakeAny \/ Clamp

SpecClamp == InitVector /\ [][NextClamp]_vars

(***************************************************************************)
(* C14: for every vector v and any bounds a, b (Vector2, Vector3, Vector4) *)
(* v.clamp(a, b) and v.clamp(b, a) leave v with identical components.      *)
(***************************************************************************)
C14_ClampBoundOrder ==
    \A k \in 1..Len(hist) :
        hist[k].op = "clamp" =>
            After(k) = clamp(ty, hist[k].pre, hist[k].arg[2], hist[k].arg[1])

\* a Vector3 was clamped between bounds that differ in every component,
\* one of them holding a NaN where the other does not, and was changed
C14_Witness ==
    /\ ty = "Vector3"
    /\ Len(hist) >= 1
    /\ hist[1].op = "clamp"
    /\ hist[1].arg[1] = Vector3_make(NaN, F(1), F(-2))
    /\ hist[1].arg[2] = Vector3_make(F(1), F(-2), NaN)
    /\ After(1) # hist[1].pre
    /\ Vector3_is_valid(After(1))

(***************************************************************************)
(* Indexing                                                                *)
(***************************************************************************)
\* `self[index] = value` through IndexMut<u32> : the vector after the
\* write, or the panic
Vector2_index_mut(self, index, value) ==
    CASE index = 0 -> [self EXCEPT !.x = value]
      [] index = 1 -> [self EXCEPT !.y = value]
      [] OTHER -> Panic

Vector3_index_mut(self, index, value) ==
    CASE index = 0 -> [self EXCEPT !.x = value]
      [] index = 1 -> [self EXCEPT !.y = value]
      [] index = 2 -> [self EXCEPT !.z = value]
      [] OTHER -> Panic

\* IndexMut for Vector4, but index 3 hands out z
Vector4_index_mut_z(self, index, value) ==
    CASE index = 0 -> [self EXCEPT !.x = value]
      [] index = 1 -> [self EXCEPT !.y = value]
      [] index = 2 -> [self EXCEPT !.z = value]
      [] index = 3 -> [self EXCEPT !.z = value]
      [] OTHER -> Panic

Vector4_index_mut(self, index, value) ==
    CASE index = 0 -> [self EXCEPT !.x = value]
      [] index = 1 -> [self EXCEPT !.y = value]
      [] index = 2 -> [self EXCEPT !.z = value]
      [] index = 3 -> [self EXCEPT !.w = value]
      [] OTHER -> Panic

\* the largest index tried
MaxIndex == 4

\* the values written through an index
WriteVals == {F(7), NaN}

\* a panic has unwound the program
Panicked ==
    \/ out.ret = Panic
    \/ \E k \in 1..Len(hist) : hist[k].ret = Panic

\* T::make(..) / Vector3::construct(..) with components among 1, -2, NaN
VMake ==
    /\ ~Constructed
    /\ \E e \in Lists(Size(ty), {F(1), F(-2), NaN}) :
          /\ m' = vmake(ty, e)
          /\ ctor' = [op |-> "make", arg |-> e]
    /\ UNCHANGED <<ty, hist, out>>

\* self[index]
Index ==
    /\ Constructed
    /\ ty \in NewVectorTypes
    /\ ~Panicked
    /\ \E index \in 0..MaxIndex :
          out' = [op |-> "index", arg |-> index,
                  ret |-> CASE ty = "Vector2" -> Vector2_index(m, index)
                            [] ty = "Vector3" -> Vector3_index(m, index)
                            [] ty = "Vector4" -> Vector4_index(m, index)]
    /\ UNCHANGED <<ty, ctor, m, hist>>

\* self[index] = value
IndexMut ==
    /\ Constructed
    /\ ty \in NewVectorTypes
    /\ ~Panicked
    /\ Len(hist) < MaxCalls
    /\ \E index \in 0..MaxIndex, value \in WriteVals :
          Let(CASE ty = "Vector2" -> Vector2_index_mut(m, index, value)
                [] ty = "Vector3" -> Vector3_index_mut(m, index, value)
                [] ty = "Vector4" -> Vector4_index_mut(m, index, value),
              LAMBDA r :
                /\ m' = IF r = Panic THEN m ELSE r
                /\ hist' = Record("index_mut", <<index, value>>,
                                  IF r = Panic THEN Panic ELSE None))
    /\ out' = NoCall
    /\ UNCHANGED <<ty, ctor>>

NextIndex == VMake \/ Index \/ IndexMut

SpecIndex == InitVector /\ [][NextIndex]_vars

\* the field of the i-th component, counted from 0
Field(i) == <<"x", "y", "z", "w">>[i + 1]

(***************************************************************************)
(* C15: indexing an N-component vector with i yields exactly the i-th      *)
(* component (0 = x, 1 = y, 2 = z, 3 = w) for 0 <= i <= N-1 and panics for *)
(* every i >= N; a write through the mutable index changes only the        *)
(* addressed component and leaves the others unchanged.                    *)
(***************************************************************************)
C15_IndexExact ==
    /\ out.op = "index" =>
          IF out.arg < Size(ty) THEN out.ret = m[Field(out.arg)]
                                ELSE out.ret = Panic
    /\ \A k \in 1..Len(hist) :
          hist[k].op = "index_mut" =>
              IF hist[k].arg[1] < Size(ty)
              THEN /\ hist[k].ret # Panic
                   /\ After(k)[Field(hist[k].arg[1])] = hist[k].arg[2]
                   /\ \A i \in 0..(Size(ty) - 1) :
                         i # hist[k].arg[1] =>
                             After(k)[Field(i)] = hist[k].pre[Field(i)]
              ELSE /\ hist[k].ret = Panic
                   /\ After(k) = hist[k].pre

\* w of a Vector4 was written and then read back
C15_Witness ==
    /\ ty = "Vector4"
    /\ Len(hist) >= 1
    /\ hist[Len(hist)].op = "index_mut"
    /\ hist[Len(hist)].arg = <<3, F(7)>>
    /\ out.op = "index" /\ out.arg = 3 /\ out.ret = F(7)

(***************************************************************************)
(* Dot and cross products                                                  *)
(***************************************************************************)
Vector2_dot(a, b) == FAdd(FMul(a.x, b.x), FMul(a.y, b.y))

\* the scalar cross product of two Vector2
Vector2_cross(a, b) == FSub(FMul(a.x, b.y), FMul(a.y, b.x))

Vector3_dot(a, b) ==
    FAdd(FAdd(FMul(a.x, b.x), FMul(a.y, b.y)), FMul(a.z, b.z))

\* Vector4::dot, but the last product reads b.z where it should read b.w
Vector4_dot_index(a, b) ==
    FAdd(FAdd(FAdd(FMul(a.x, b.x), FMul(a.y, b.y)), FMul(a.z, b.z)),
         FMul(a.w, b.z))

Vector4_dot(a, b) ==
    FAdd(FAdd(FAdd(FMul(a.x, b.x), FMul(a.y, b.y)), FMul(a.z, b.z)),
         FMul(a.w, b.w))

\* T::dot(&a, &b) on vectors of type t
dot(t, a, b) ==
    CASE t = "Vector2" -> Vector2_dot(a, b)
      [] t = "Vector3" -> Vector3_dot(a, b)
      [] t = "Vector4" -> Vector4_dot(a, b)

\* T::cross(&a, &b) on vectors of type t
cross(t, a, b) ==
    CASE t = "Vector2" -> Vector2_cross(a, b)
      [] t = "Vector3" -> Vector3_cross(a, b)

\* the second arguments handed to dot and cross
ProductOperands(t) ==
    {vmake(t, e) : e \in {<<F(1), F(-2), F(0), F(1)>>,
                          <<F(-2), F(1), F(1), F(0)>>,
                          <<F(0), F(0), F(1), F(-2)>>,
                          <<F(1), F(1), F(-2), F(-2)>>,
                          <<NaN, F(1), F(-2), F(0)>>,
                          <<F(1), F(0), F(1), NaN>>,
                          <<PosInf, F(0), F(1), F(1)>>,
                          <<F(1), NegInf, F(-2), PosInf>>}}

\* T::dot(&self, &b)
Dot ==
    /\ Constructed
    /\ ty \in NewVectorTypes
    /\ \E b \in ProductOperands(ty) :
          out' = [op |-> "dot", arg |-> b, ret |-> dot(ty, m, b)]
    /\ UNCHANGED <<ty, ctor, m, hist>>

\* T::cross(&self, &b)
Cross ==
    /\ Constructed
    /\ ty \in {"Vector2", "Vector3"}
    /\ \E b \in ProductOperands(ty) :
          out' = [op |-> "cross", arg |-> b, ret |-> cross(ty, m, b)]
    /\ UNCHANGED <<ty, ctor, m, hist>>

NextProducts == VMakeAny \/ Dot \/ Cross

SpecProducts == InitVector /\ [][NextProducts]_vars

\* p == -q under the f32 comparison, for two scalars (Vector2) or
\* component by component (Vector3)
IsNegationOf(p, q) ==
    IF ty = "Vector2" THEN FEq(p, FNeg(q))
    ELSE FEq(p.x, FNeg(q.x)) /\ FEq(p.y, FNeg(q.y)) /\ FEq(p.z, FNeg(q.z))

\* a cross product without a NaN
CrossHasNoNaN(p) ==
    IF ty = "Vector2" THEN ~IsNaN(p)
    ELSE ~IsNaN(p.x) /\ ~IsNaN(p.y) /\ ~IsNaN(p.z)

(***************************************************************************)
(* C16 (as stated): for all Vector3 a, b, cross(a, b) equals the negation  *)
(* of cross(b, a) component by component (and for Vector2 the scalar       *)
(* cross(a, b) = a.x*b.y - a.y*b.x equals -cross(b, a)).                   *)
(***************************************************************************)
C16_CrossAnticommutative ==
    out.op = "cross" => IsNegationOf(out.ret, cross(ty, out.arg, m))

(***************************************************************************)
(* C16 (amended): for all Vector3 a, b for which no component of           *)
(* cross(a, b) is NaN, cross(a, b) equals the negation of cross(b, a)      *)
(* component by component (and likewise the scalar cross of Vector2);      *)
(* a NaN component is not equal to anything.                               *)
(***************************************************************************)
C16_CrossAnticommutativeNoNaN ==
    (out.op = "cross" /\ CrossHasNoNaN(out.ret)) =>
        IsNegationOf(out.ret, cross(ty, out.arg, m))

\* the cross product of two Vector3 was taken, every component non-zero
C16_Witness ==
    /\ ty = "Vector3"
    /\ out.op = "cross"
    /\ IsFinite(out.ret.x) /\ out.ret.x # F(0)
    /\ IsFinite(out.ret.y) /\ out.ret.y # F(0)
    /\ IsFinite(out.ret.z) /\ out.ret.z # F(0)

(***************************************************************************)
(* C17 (as stated): for all vectors a, b of the same size (2, 3 or 4),     *)
(* dot(a, b) == dot(b, a), where dot is the sum of the component-wise      *)
(* products.                                                               *)
(***************************************************************************)
C17_DotSymmetric ==
    out.op = "dot" => FEq(out.ret, dot(ty, out.arg, m))

\* the sum of the component-wise products of the two arguments
SumOfProducts(a, b) ==
    SumSeq([i \in 1..Size(ty) |-> FMul(a[Field(i - 1)], b[Field(i - 1)])])

(***************************************************************************)
(* C17 (amended): for all vectors a, b of the same size (2, 3 or 4) whose  *)
(* dot product is not NaN, dot(a, b) == dot(b, a), where dot is the sum of *)
(* the component-wise products; a NaN dot product is not == to itself.     *)
(***************************************************************************)
C17_DotSymmetricNoNaN ==
    (out.op = "dot" /\ ~IsNaN(out.ret)) =>
        /\ FEq(out.ret, dot(ty, out.arg, m))
        /\ out.ret = SumOfProducts(m, out.arg)

\* the dot product of two Vector4 that differ was taken and is not zero
C17_Witness ==
    /\ ty = "Vector4"
    /\ out.op = "dot"
    /\ out.arg # m
    /\ IsFinite(out.ret) /\ out.ret # F(0)

(***************************************************************************)
(* set, the element setters and getters as operations                      *)
(***************************************************************************)
\* Matrix2::set(..): one call of set_mRC per argument, in argument order
Matrix2_set(self, m11, m21, m12, m22) ==
    [self EXCEPT ![Matrix2_set_m.m11] = m11,
                 ![Matrix2_set_m.m21] = m21,
                 ![Matrix2_set_m.m12] = m12,
                 ![Matrix2_set_m.m22] = m22]

\* Matrix3::set(..): one call of set_mRC per argument, in argument order
\* Matrix3::set, but the second and the fourth argument go to each other's element
Matrix3_set_swapped(self, m11, m21, m31, m12, m22, m32, m13, m23, m33) ==
    [self EXCEPT ![Matrix3_set_m.m11] = m11,
                 ![Matrix3_set_m.m21] = m12,
                 ![Matrix3_set_m.m31] = m31,
                 ![Matrix3_set_m.m12] = m21,
                 ![Matrix3_set_m.m22] = m22,
                 ![Matrix3_set_m.m32] = m32,
                 ![Matrix3_set_m.m13] = m13,
                 ![Matrix3_set_m.m23] = m23,
                 ![Matrix3_set_m.m33] = m33]

Matrix3_set(self, m11, m21, m31, m12, m22, m32, m13, m23, m33) ==
    [self EXCEPT ![Matrix3_set_m.m11] = m11,
                 ![Matrix3_set_m.m21] = m21,
                 ![Matrix3_set_m.m31] = m31,
                 ![Matrix3_set_m.m12] = m12,
                 ![Matrix3_set_m.m22] = m22,
                 ![Matrix3_set_m.m32] = m32,
                 ![Matrix3_set_m.m13] = m13,
                 ![Matrix3_set_m.m23] = m23,
                 ![Matrix3_set_m.m33] = m33]

\* Matrix4::set(..): one call of set_mRC per argument, in argument order
Matrix4_set(self, m11, m21, m31, m41, m12, m22, m32, m42, m13, m23, m33, m43, m14, m24, m34, m44) ==
    [self EXCEPT ![Matrix4_set_m.m11] = m11,
                 ![Matrix4_set_m.m21] = m21,
                 ![Matrix4_set_m.m31] = m31,
                 ![Matrix4_set_m.m41] = m41,
                 ![Matrix4_set_m.m12] = m12,
                 ![Matrix4_set_m.m22] = m22,
                 ![Matrix4_set_m.m32] = m32,
                 ![Matrix4_set_m.m42] = m42,
                 ![Matrix4_set_m.m13] = m13,
                 ![Matrix4_set_m.m23] = m23,
                 ![Matrix4_set_m.m33] = m33,
                 ![Matrix4_set_m.m43] = m43,
                 ![Matrix4_set_m.m14] = m14,
                 ![Matrix4_set_m.m24] = m24,
                 ![Matrix4_set_m.m34] = m34,
                 ![Matrix4_set_m.m44] = m44]

\* self.set(..) with the arguments e
set(t, self, e) ==
    CASE t = "Matrix2" -> Matrix2_set(self, e[1], e[2], e[3], e[4])
      [] t = "Matrix3" -> Matrix3_set(self, e[1], e[2], e[3], e[4], e[5], e[6],
                                      e[7], e[8], e[9])
      [] t = "Matrix4" -> Matrix4_set(self, e[1], e[2], e[3], e[4], e[5], e[6],
                                      e[7], e[8], e[9], e[10], e[11], e[12],
                                      e[13], e[14], e[15], e[16])

\* the table of the setters of type t
set_m_(t) ==
    CASE t = "Matrix2" -> Matrix2_set_m
      [] t = "Mat2"    -> Mat2_set_m
      [] t = "Matrix3" -> Matrix3_set_m
      [] t = "Mat3"    -> Mat3_set_m
      [] t = "Matrix4" -> Matrix4_set_m
      [] t = "Mat4"    -> Mat4_set_m

\* the value written by the element setters
SetVal == F(9)

\* T::make(..) / T::construct(..) of a base matrix
MakeBase ==
    /\ ~Constructed
    /\ \E e \in Bases(Dim(ty)) :
          /\ m' = make(ty, e)
          /\ ctor' = [op |-> "make", arg |-> e]
    /\ UNCHANGED <<ty, hist, out>>

\* self.set(..)
Set ==
    /\ Constructed
    /\ ty \in NewTypes
    /\ Len(hist) < MaxCalls
    /\ \E e \in Bases(Dim(ty)) :
          /\ m' = set(ty, m, e)
          /\ hist' = Record("set", e, None)
    /\ out' = NoCall
    /\ UNCHANGED <<ty, ctor>>

\* self.set_m{r}{c}(v)
SetM ==
    /\ Constructed
    /\ Len(hist) < MaxCalls
    /\ \E r \in 1..Dim(ty), c \in 1..Dim(ty) :
          /\ m' = [m EXCEPT ![set_m_(ty)[RC[r][c]]] = SetVal]
          /\ hist' = Record("set_m", <<r, c, SetVal>>, None)
    /\ out' = NoCall
    /\ UNCHANGED <<ty, ctor>>

\* self.m{r}{c}()
GetM ==
    /\ Constructed
    /\ \E r \in 1..Dim(ty), c \in 1..Dim(ty) :
          out' = [op |-> "m", arg |-> <<r, c>>, ret |-> m[m_(ty)[RC[r][c]]]]
    /\ UNCHANGED <<ty, ctor, m, hist>>

NextLayout == MakeBase \/ Set \/ SetM \/ GetM

SpecLayout == Init /\ [][NextLayout]_vars

\* the position in the array (counted from 1) of flat index (c-1)*N + (r-1)
Flat(r, c) == (c - 1) * Dim(ty) + (r - 1) + 1

\* the array as it was constructed
Constructed0 == IF Len(hist) = 0 THEN m ELSE hist[1].pre

(***************************************************************************)
(* C18: column-major layout is consistent across construction, getters and *)
(* setters for N = 2, 3, 4: make/construct/set store their k-th argument   *)
(* at flat index k-1; m{r}{c}() reads and set_m{r}{c}(v) writes flat index *)
(* (c-1)*N + (r-1) and nothing else; so every accessor returns the value   *)
(* last written to its own element and elements never addressed keep their *)
(* previous value.                                                         *)
(***************************************************************************)
C18_ColumnMajorLayout ==
    /\ ctor.op = "make" =>
          \A k \in 1..(Dim(ty) * Dim(ty)) : Constructed0[k] = ctor.arg[k]
    /\ out.op = "m" => out.ret = m[Flat(out.arg[1], out.arg[2])]
    /\ \A k \in 1..Len(hist) :
          /\ hist[k].op = "set" =>
                \A i \in 1..(Dim(ty) * Dim(ty)) : After(k)[i] = hist[k].arg[i]
          /\ hist[k].op = "set_m" =>
                After(k) = [hist[k].pre EXCEPT
                               ![Flat(hist[k].arg[1], hist[k].arg[2])] =
                                   hist[k].arg[3]]

\* a Matrix3 was set as a whole, m23 was then written and read back
C18_Witness ==
    /\ ty = "Matrix3"
    /\ Len(hist) = 2
    /\ hist[1].op = "set" /\ hist[1].arg # ctor.arg
    /\ hist[2].op = "set_m" /\ hist[2].arg = <<2, 3, SetVal>>
    /\ out.op = "m" /\ out.arg = <<2, 3>> /\ out.ret = SetVal


(***************************************************************************)
(* Arithmetic operators of the matrices.  The element-wise operators are   *)
(* the same loop over self.m in matrix2.rs, matrix3.rs and matrix4.rs.     *)
(***************************************************************************)
\* a + b, a - b, a * b, a / b on f32
FBin(op, a, b) ==
    CASE op = "add" -> FAdd(a, b)
      [] op = "sub" -> FSub(a, b)
      [] op = "mul" -> FMul(a, b)
      [] op = "div" -> FDiv(a, b)

\* impl Add<f32> / Sub<f32> / Mul<f32> / Div<f32> :
\*   let mut mat = T::new(); mat.m[i] = *elem op _rhs (every i); mat
Matrix_op_f32(t, op, self, rhs) ==
    [i \in DOMAIN new(t) |-> FBin(op, self[i], rhs)]

\* impl Add<T> / Sub<T> :
\*   let mut mat = T::new(); mat.m[i] = *elem op _rhs.m[i] (every i); mat
Matrix_op(t, op, self, rhs) ==
    [i \in DOMAIN new(t) |-> FBin(op, self[i], rhs[i])]

\* impl AddAssign<f32> / SubAssign<f32> / MulAssign<f32> / DivAssign<f32> :
\*   for elem in self.m.iter_mut() { *elem op= _rhs }
Matrix_op_assign_f32(op, self, rhs) ==
    [i \in DOMAIN self |-> FBin(op, self[i], rhs)]

\* impl AddAssign<T> / SubAssign<T> :
\*   for (i, elem) in self.m.iter_mut().enumerate() { *elem op= _rhs.m[i] }
Matrix_op_assign(op, self, rhs) ==
    [i \in DOMAIN self |-> FBin(op, self[i], rhs[i])]

\* impl MulAssign<T> : let res = *self * _rhs; self.m = res.m
\* MulAssign, but the receiver is taken as the right operand
Matrix_mul_assign_right(t, self, rhs) ==
    Let(mul(t, rhs, self), LAMBDA res : [i \in DOMAIN self |-> res[i]])

Matrix_mul_assign(t, self, rhs) ==
    Let(mul(t, self, rhs), LAMBDA res : [i \in DOMAIN self |-> res[i]])

\* the scalars on the right of an operator
Scalars == {F(2), F(-1), F(0), NaN}

\* self += rhs, self -= rhs, self *= rhs, self /= rhs with rhs an f32
OpAssignScalar ==
    /\ Constructed
    /\ ty \in NewTypes
    /\ Len(hist) < MaxCalls
    /\ \E op \in {"add", "sub", "mul", "div"}, rhs \in Scalars :
          /\ m' = Matrix_op_assign_f32(op, m, rhs)
          /\ hist' = Record("assign_f32", <<op, rhs>>, None)
    /\ out' = NoCall
    /\ UNCHANGED <<ty, ctor>>

\* self += rhs, self -= rhs with rhs a matrix
OpAssignMatrix ==
    /\ Constructed
    /\ ty \in NewTypes
    /\ Len(hist) < MaxCalls
    /\ \E op \in {"add", "sub"}, rhs \in Operands(Dim(ty)) :
          /\ m' = Matrix_op_assign(op, m, make(ty, rhs))
          /\ hist' = Record("assign", <<op, make(ty, rhs)>>, None)
    /\ out' = NoCall
    /\ UNCHANGED <<ty, ctor>>

\* self *= rhs with rhs a matrix
MulAssign ==
    /\ Constructed
    /\ ty \in NewTypes
    /\ Len(hist) < MaxCalls
    /\ \E rhs \in Operands(Dim(ty)) :
          /\ m' = Matrix_mul_assign(ty, m, make(ty, rhs))
          /\ hist' = Record("mul_assign", make(ty, rhs), None)
    /\ out' = NoCall
    /\ UNCHANGED <<ty, ctor>>

NextAssign == MakeBase \/ OpAssignScalar \/ OpAssignMatrix \/ MulAssign

SpecAssign == Init /\ [][NextAssign]_vars

(***************************************************************************)
(* C19: every in-place operator agrees with its value-returning form:      *)
(* after `a op= b` the value of a equals `a op b` computed from a's value  *)
(* before the assignment, for += -= *= /= with a scalar (element-wise),    *)
(* += -= with a matrix (element-wise) and *= with a matrix, where the      *)
(* receiver is the left operand (a becomes a*b, not b*a).                  *)
(***************************************************************************)
C19_AssignAgreesWithValue ==
    \A k \in 1..Len(hist) :
        /\ hist[k].op = "assign_f32" =>
              /\ After(k) = Matrix_op_f32(ty, hist[k].arg[1], hist[k].pre,
                                          hist[k].arg[2])
              /\ \A i \in 1..(Dim(ty) * Dim(ty)) :
                    After(k)[i] = FBin(hist[k].arg[1], hist[k].pre[i],
                                       hist[k].arg[2])
        /\ hist[k].op = "assign" =>
              /\ After(k) = Matrix_op(ty, hist[k].arg[1], hist[k].pre,
                                      hist[k].arg[2])
              /\ \A i \in 1..(Dim(ty) * Dim(ty)) :
                    After(k)[i] = FBin(hist[k].arg[1], hist[k].pre[i],
                                       hist[k].arg[2][i])
        /\ hist[k].op = "mul_assign" =>
              /\ After(k) = mul(ty, hist[k].pre, hist[k].arg)
              /\ \A r, c \in 1..Dim(ty) :
                    At(ty, After(k), r, c) =
                        ProdAt(ty, hist[k].pre, hist[k].arg, r, c)

\* a Matrix3 was multiplied in place by a matrix it does not commute with
C19_Witness ==
    /\ ty = "Matrix3"
    /\ Len(hist) >= 1
    /\ hist[1].op = "mul_assign"
    /\ AllFinite(After(1))
    /\ After(1) # mul(ty, hist[1].arg, hist[1].pre)


(***************************************************************************)
(* common::next_power_of_two on i32                                        *)
(***************************************************************************)
\* i32::MAX
MaxI32 == 2147483647

\* a >> k on i32: the arithmetic shift, rounding towards minus infinity
Shr(a, k) == IF a >= 0 THEN a \div (2 ^ k) ELSE -1 - ((-1 - a) \div (2 ^ k))

\* a & b for a, b >= 0
RECURSIVE BitAndNat(_, _)
BitAndNat(a, b) ==
    IF a = 0 \/ b = 0 THEN 0
    ELSE (IF a % 2 = 1 /\ b % 2 = 1 THEN 1 ELSE 0)
         + 2 * BitAndNat(a \div 2, b \div 2)

\* a | b for a, b >= 0
RECURSIVE BitOrNat(_, _)
BitOrNat(a, b) ==
    IF a = 0 THEN b
    ELSE IF b = 0 THEN a
    ELSE (IF a % 2 = 1 \/ b % 2 = 1 THEN 1 ELSE 0)
         + 2 * BitOrNat(a \div 2, b \div 2)

\* a & b on i32 in two's complement, where !a = -1 - a
BitAnd(a, b) ==
    IF a >= 0 /\ b >= 0 THEN BitAndNat(a, b)
    ELSE IF a >= 0 THEN a - BitAndNat(a, -1 - b)
    ELSE IF b >= 0 THEN b - BitAndNat(b, -1 - a)
    ELSE -1 - BitOrNat(-1 - a, -1 - b)

\* a | b on i32 in two's complement
BitOr(a, b) ==
    IF a >= 0 /\ b >= 0 THEN BitOrNat(a, b)
    ELSE IF a >= 0 THEN -1 - ((-1 - b) - BitAndNat(-1 - b, a))
    ELSE IF b >= 0 THEN -1 - ((-1 - a) - BitAndNat(-1 - a, b))
    ELSE -1 - BitAndNat(-1 - a, -1 - b)

\* r |= r >> k
OrShr(r, k) == BitOr(r, Shr(r, k))

\* next_power_of_two(x); when r = i32::MAX the addition r + 1 overflows: it
\* wraps to i32::MIN where overflow checks are off (release builds) and
\* panics where they are on (debug builds)
\* next_power_of_two, but starting from x - 1, so that a power of two is its own result
next_power_of_two_inclusive(x, wrapping) ==
    Let(OrShr(OrShr(OrShr(OrShr(OrShr(IF x <= 0 THEN x ELSE x - 1, 1), 2), 4), 8), 16), LAMBDA r :
        IF r = MaxI32
        THEN (IF wrapping THEN [panic |-> FALSE, ret |-> -MaxI32 - 1]
                          ELSE [panic |-> TRUE, ret |-> Panic])
        ELSE [panic |-> FALSE, ret |-> r + 1])

next_power_of_two(x, wrapping) ==
    Let(OrShr(OrShr(OrShr(OrShr(OrShr(x, 1), 2), 4), 8), 16), LAMBDA r :
        IF r = MaxI32
        THEN (IF wrapping THEN [panic |-> FALSE, ret |-> -MaxI32 - 1]
                          ELSE [panic |-> TRUE, ret |-> Panic])
        ELSE [panic |-> FALSE, ret |-> r + 1])

\* is_power_of_two(x); `&&` does not evaluate x - 1 when x <= 0
\* is_power_of_two, but the test of the sign lets 0 through
is_power_of_two_zero(x) ==
    IF x >= 0 THEN BitAnd(x, x - 1) = 0 ELSE FALSE

is_power_of_two(x) ==
    IF x > 0 THEN BitAnd(x, x - 1) = 0 ELSE FALSE

\* the inputs 0 .. MaxInput
MaxInput == 300

\* the arguments tried: the small ones of either sign, and 2^k - 1, 2^k,
\* 2^k + 1 and -2^k up to i32::MAX and down to i32::MIN
Inputs ==
    ((-MaxInput)..MaxInput)
    \cup {2 ^ k - 1 : k \in 1..30} \cup {2 ^ k : k \in 1..30}
    \cup {2 ^ k + 1 : k \in 1..30} \cup {-(2 ^ k) : k \in 1..30}
    \cup {MaxI32, -MaxI32, -MaxI32 - 1}

\* an i32 is at hand
InitInt ==
    /\ ty = "i32"
    /\ ctor = [op |-> "literal", arg |-> None]
    /\ m \in Inputs
    /\ hist = <<>>
    /\ out = NoCall

\* next_power_of_two(m), in a build with or without overflow checks
NextPowerOfTwo ==
    /\ ty = "i32"
    /\ \E wrapping \in BOOLEAN :
          Let(next_power_of_two(m, wrapping), LAMBDA r :
              out' = [op |-> IF r.panic THEN "next_power_of_two panicked"
                                        ELSE "next_power_of_two",
                      arg |-> m, ret |-> r.ret])
    /\ UNCHANGED <<ty, ctor, m, hist>>

\* is_power_of_two(m)
IsPowerOfTwoCall ==
    /\ ty = "i32"
    /\ out' = [op |-> "is_power_of_two", arg |-> m, ret |-> is_power_of_two(m)]
    /\ UNCHANGED <<ty, ctor, m, hist>>

NextPowerOfTwoOrTest == NextPowerOfTwo \/ IsPowerOfTwoCall

SpecPowerOfTwo == InitInt /\ [][NextPowerOfTwoOrTest]_vars

\* n is 2^k for some k in 0..30
IsPowerOfTwo(n) == \E k \in 0..30 : n = 2 ^ k

(***************************************************************************)
(* C20: next_power_of_two(x) gets the next power of two for the given      *)
(* value: for every i32 x with 0 <= x < 2^30 the result is the smallest    *)
(* power of two strictly greater than x (0 -> 1, 1 -> 2, 2 -> 4, 3 -> 4,   *)
(* and an exact power 2^k -> 2^(k+1), never x itself).                     *)
(***************************************************************************)
C20_NextPowerOfTwo ==
    (out.op = "next_power_of_two" /\ out.arg >= 0 /\ out.arg < 2 ^ 30) =>
        /\ out.ret \in Nat
        /\ IsPowerOfTwo(out.ret)
        /\ out.ret > out.arg
        /\ out.ret \div 2 <= out.arg

\* the function was applied to the exact power 2^20
C20_Witness ==
    /\ out.op = "next_power_of_two"
    /\ out.arg = 2 ^ 20
    /\ out.ret = 2 ^ 21

(***************************************************************************)
(* C21: for every i32 input x, including negative values and values        *)
(* >= 2^30, next_power_of_two(x) completes without i32 overflow in `r + 1` *)
(* and returns a value y for which is_power_of_two(y) is true and y > x.   *)
(***************************************************************************)
C21_NextPowerOfTwoTotal ==
    out.op \in {"next_power_of_two", "next_power_of_two panicked"} =>
        /\ out.op = "next_power_of_two"
        /\ out.ret # -MaxI32 - 1
        /\ is_power_of_two(out.ret)
        /\ out.ret > out.arg

\* what holds instead: in the range 0 <= x < 2^30 the call does what C21
\* says; a negative x gives 0; from 2^30 on the addition overflows
C21_NextPowerOfTwoByRange ==
    out.op \in {"next_power_of_two", "next_power_of_two panicked"} =>
        IF out.arg < 0 THEN out.op = "next_power_of_two" /\ out.ret = 0
        ELSE IF out.arg < 2 ^ 30
             THEN /\ out.op = "next_power_of_two"
                  /\ is_power_of_two(out.ret)
                  /\ out.ret > out.arg
             ELSE \/ out.op = "next_power_of_two panicked"
                  \/ out.ret = -MaxI32 - 1

(***************************************************************************)
(* C22: is_power_of_two(x) returns true if and only if x = 2^k for some k  *)
(* in 0..30; it returns false for 0 and for every negative x, and          *)
(* evaluating it never overflows (x - 1 is not evaluated when x <= 0,      *)
(* including x = i32::MIN).                                                *)
(***************************************************************************)
C22_IsPowerOfTwoExact ==
    out.op = "is_power_of_two" =>
        /\ out.ret <=> IsPowerOfTwo(out.arg)
        /\ out.arg <= 0 => out.ret = FALSE

\* the test was made of 2^30, the largest power of two of i32
C22_Witness ==
    out.op = "is_power_of_two" /\ out.arg = 2 ^ 30 /\ out.ret = TRUE

(***************************************************************************)
(* Conversions between the vector sizes                                    *)
(***************************************************************************)
\* impl From<Vector3> for Vector2
Vector2_from_Vector3(item) == [x |-> item.x, y |-> item.y]

\* impl From<Vector2> for Vector3
Vector3_from_Vector2(item) == [x |-> item.x, y |-> item.y, z |-> F(0)]

\* impl From<Vector4> for Vector3
\* From<Vector4> for Vector3, but z is taken from w
Vector3_from_Vector4_w(item) == [x |-> item.x, y |-> item.y, z |-> item.w]

Vector3_from_Vector4(item) == [x |-> item.x, y |-> item.y, z |-> item.z]

\* impl From<Vector3> for Vector4
Vector4_from_Vector3(item) ==
    [x |-> item.x, y |-> item.y, z |-> item.z, w |-> F(0)]

\* T::from(self), the result taking the place of the vector
From ==
    /\ Constructed
    /\ Len(hist) < MaxCalls
    /\ \E t \in NewVectorTypes :
          /\ \/ ty = "Vector3" /\ t = "Vector2" /\ m' = Vector2_from_Vector3(m)
             \/ ty = "Vector2" /\ t = "Vector3" /\ m' = Vector3_from_Vector2(m)
             \/ ty = "Vector4" /\ t = "Vector3" /\ m' = Vector3_from_Vector4(m)
             \/ ty = "Vector3" /\ t = "Vector4" /\ m' = Vector4_from_Vector3(m)
          /\ ty' = t
    /\ hist' = Record("from", ty, None)
    /\ out' = NoCall
    /\ UNCHANGED ctor

NextFrom == VMakeAny \/ From

SpecFrom == InitVector /\ [][NextFrom]_vars

\* the number of components of a vector
SizeOf(v) == Cardinality(DOMAIN v)

\* the first n components of p and q are the same
SameFirst(n, p, q) == \A i \in 0..(n - 1) : q[Field(i)] = p[Field(i)]

(***************************************************************************)
(* C23: from(Vector(N+1)) copies the first N components and drops the      *)
(* last; from(Vector(N-1)) copies all components and sets the added last   *)
(* component to 0; hence VectorN -> Vector(N+1) -> VectorN returns the     *)
(* original vector, and Vector3 -> Vector2 -> Vector3 returns (x, y, 0).   *)
(***************************************************************************)
C23_Conversions ==
    \A k \in 1..Len(hist) :
        hist[k].op = "from" =>
            /\ IF SizeOf(After(k)) < SizeOf(hist[k].pre)
               THEN /\ SizeOf(After(k)) = SizeOf(hist[k].pre) - 1
                    /\ SameFirst(SizeOf(After(k)), hist[k].pre, After(k))
               ELSE /\ SizeOf(After(k)) = SizeOf(hist[k].pre) + 1
                    /\ SameFirst(SizeOf(hist[k].pre), hist[k].pre, After(k))
                    /\ After(k)[Field(SizeOf(hist[k].pre))] = F(0)
            /\ (k > 1 /\ hist[k - 1].op = "from"
                      /\ SizeOf(After(k)) = SizeOf(hist[k - 1].pre)) =>
                  IF SizeOf(hist[k].pre) > SizeOf(After(k))
                  THEN After(k) = hist[k - 1].pre
                  ELSE After(k) = [hist[k - 1].pre EXCEPT
                                      ![Field(SizeOf(After(k)) - 1)] = F(0)]

\* a Vector3 with z different from 0 went to Vector4 and back
C23_Witness ==
    /\ Len(hist) = 2
    /\ hist[1].op = "from" /\ hist[1].arg = "Vector3"
    /\ hist[2].op = "from" /\ hist[2].arg = "Vector4"
    /\ hist[1].pre.z = F(-2)
    /\ m = hist[1].pre

(***************************************************************************)
(* C24: normalize()/norm() applied to a vector whose magnitude is exactly  *)
(* 1 (e.g. an axis unit vector) returns 1 and leaves every component       *)
(* unchanged, so normalizing an already-normalized vector a second time    *)
(* changes nothing.                                                        *)
(***************************************************************************)
C24_NormalizeUnit ==
    \A k \in 1..Len(hist) :
        (hist[k].op = "normalize" /\ Magnitude(hist[k].pre) = F(1)) =>
            /\ hist[k].ret = F(1)
            /\ After(k) = hist[k].pre

\* a Vec2 that was not of length 1 was normalised twice, the second time
\* as a unit vector
C24_Witness ==
    /\ ty = "Vec2"
    /\ Len(hist) = 2
    /\ hist[1].op = "normalize" /\ hist[1].ret = F(2)
    /\ hist[2].op = "normalize" /\ hist[2].ret = F(1)
    /\ m = hist[2].pre

(***************************************************************************)
(* Matrix4::perspective.  The argument fov is given as the point of the    *)
(* unit circle that (fov / 2.0).to_radians() denotes.                      *)
(***************************************************************************)
\* Matrix4::perspective, but the two writes to m43 are made in the other order
Matrix4_perspective_first_write(fov, aspect_ratio, near, far) ==
    Let(FDiv(cos(fov), sin(fov)), LAMBDA cotangent :
    Let(FSub(far, near), LAMBDA depth :
        [Matrix4_new EXCEPT
            ![Matrix4_set_m.m11] = FDiv(cotangent, aspect_ratio),
            ![Matrix4_set_m.m22] = cotangent,
            ![Matrix4_set_m.m33] = FDiv(FNeg(FAdd(far, near)), depth),
            ![Matrix4_set_m.m43] = FDiv(FMul(FMul(F(-2), near), far), depth),
            ![Matrix4_set_m.m43] = F(-1),
            ![Matrix4_set_m.m44] = F(0)]))

Matrix4_perspective(fov, aspect_ratio, near, far) ==
    Let(FDiv(cos(fov), sin(fov)), LAMBDA cotangent :
    Let(FSub(far, near), LAMBDA depth :
        [Matrix4_new EXCEPT
            ![Matrix4_set_m.m11] = FDiv(cotangent, aspect_ratio),
            ![Matrix4_set_m.m22] = cotangent,
            ![Matrix4_set_m.m33] = FDiv(FNeg(FAdd(far, near)), depth),
            ![Matrix4_set_m.m43] = F(-1),
            ![Matrix4_set_m.m43] = FDiv(FMul(FMul(F(-2), near), far), depth),
            ![Matrix4_set_m.m44] = F(0)]))

Mat4_perspective(fov, aspect_ratio, near, far) ==
    Let(FDiv(cos(fov), sin(fov)), LAMBDA cotangent :
    Let(FSub(far, near), LAMBDA depth :
        [Mat4_new EXCEPT
            ![Mat4_set_m.m11] = FDiv(cotangent, aspect_ratio),
            ![Mat4_set_m.m22] = cotangent,
            ![Mat4_set_m.m33] = FDiv(FNeg(FAdd(far, near)), depth),
            ![Mat4_set_m.m43] = F(-1),
            ![Mat4_set_m.m43] = FDiv(FMul(FMul(F(-2), near), far), depth),
            ![Mat4_set_m.m44] = F(0)]))

\* aspect ratios, and distances of the near and far planes
Ratios == {F(1), F(2), FDiv(F(16), F(9))}

Planes == {F(1), F(2), F(5)}

\* Matrix4::perspective(..) / Mat4::perspective(..)
Perspective ==
    /\ ~Constructed
    /\ ty \in {"Matrix4", "Mat4"}
    /\ \E fov \in Angles, aspect_ratio \in Ratios, near \in Planes, far \in Planes :
          /\ m' = IF ty = "Matrix4"
                  THEN Matrix4_perspective(fov, aspect_ratio, near, far)
                  ELSE Mat4_perspective(fov, aspect_ratio, near, far)
          /\ ctor' = [op |-> "perspective",
                      arg |-> <<fov, aspect_ratio, near, far>>]
    /\ UNCHANGED <<ty, hist, out>>

NextPerspective == Perspective \/ GetM

SpecPerspective == Init /\ [][NextPerspective]_vars

\* cot of the half field of view of the perspective call
Cot == FDiv(ctor.arg[1].cos, ctor.arg[1].sin)

(***************************************************************************)
(* C25: perspective(fov, aspect_ratio, near, far) starts from identity and *)
(* applies its writes in program order: m11 = cot(fov/2)/aspect_ratio,     *)
(* m22 = cot(fov/2), m33 = -(far+near)/(far-near),                         *)
(* m43 = -2*near*far/(far-near) (the later of the two writes to m43),      *)
(* m44 = 0, m34 = 0 (never written) and every other element is 0: the      *)
(* fourth column is entirely zero.                                         *)
(***************************************************************************)
C25_PerspectiveElements ==
    ctor.op = "perspective" =>
        \A r, c \in 1..4 :
            At(ty, m, r, c) =
                CASE r = 1 /\ c = 1 -> FDiv(Cot, ctor.arg[2])
                  [] r = 2 /\ c = 2 -> Cot
                  [] r = 3 /\ c = 3 ->
                        FDiv(FNeg(FAdd(ctor.arg[4], ctor.arg[3])),
                             FSub(ctor.arg[4], ctor.arg[3]))
                  [] r = 4 /\ c = 3 ->
                        FDiv(FMul(FMul(F(-2), ctor.arg[3]), ctor.arg[4]),
                             FSub(ctor.arg[4], ctor.arg[3]))
                  [] OTHER -> F(0)

\* a perspective matrix whose m43 is finite and not -1 was built and its
\* m43 read
C25_Witness ==
    /\ ctor.op = "perspective"
    /\ out.op = "m" /\ out.arg = <<4, 3>>
    /\ IsFinite(out.ret) /\ out.ret # F(-1) /\ out.ret # F(0)
    /\ IsFinite(At(ty, m, 1, 1)) /\ At(ty, m, 1, 1) # F(0)

(***************************************************************************)
(* C26: rotate_y(angle) returns the identity matrix changed in exactly     *)
(* three elements: m11 = cos(angle), m33 = cos(angle) and m31 = sin(angle) *)
(* (the second of two writes to m31; the first write, -sin(angle), is      *)
(* overwritten); m13 is left at 0 and all other elements keep their        *)
(* identity values.                                                        *)
(***************************************************************************)
C26_RotateYElements ==
    ctor.op = "rotate_y" =>
        \A r, c \in 1..4 :
            At(ty, Constructed0, r, c) =
                CASE r = 1 /\ c = 1 -> ctor.arg.cos
                  [] r = 3 /\ c = 3 -> ctor.arg.cos
                  [] r = 3 /\ c = 1 -> ctor.arg.sin
                  [] r = c -> F(1)
                  [] OTHER -> F(0)

\* rotate_y was called with an angle whose sine is not zero, and the
\* determinant of the result was taken
C26_Witness ==
    /\ ctor.op = "rotate_y"
    /\ ctor.arg.sin # F(0)
    /\ hist = <<>>
    /\ out.op = "determinant"

(***************************************************************************)
(* Matrix4::ortho                                                          *)
(***************************************************************************)
\* Matrix4::ortho, but a zero depth leaves the third row of the identity in place
Matrix4_ortho_guarded(left, right, top, bottom, near, far) ==
    Let(FSub(right, left), LAMBDA width :
    Let(FSub(top, bottom), LAMBDA height :
    Let(FSub(far, near), LAMBDA depth :
        [Matrix4_new EXCEPT
            ![Matrix4_set_m.m11] = FDiv(F(2), width),
            ![Matrix4_set_m.m22] = FDiv(F(2), height),
            ![Matrix4_set_m.m33] = IF depth = F(0) THEN F(1) ELSE FDiv(F(-2), depth),
            ![Matrix4_set_m.m14] = FDiv(FNeg(FAdd(right, left)), width),
            ![Matrix4_set_m.m24] = FDiv(FNeg(FAdd(top, bottom)), height),
            ![Matrix4_set_m.m34] = IF depth = F(0) THEN F(0) ELSE FDiv(FNeg(FAdd(far, near)), depth)])))

Matrix4_ortho(left, right, top, bottom, near, far) ==
    Let(FSub(right, left), LAMBDA width :
    Let(FSub(top, bottom), LAMBDA height :
    Let(FSub(far, near), LAMBDA depth :
        [Matrix4_new EXCEPT
            ![Matrix4_set_m.m11] = FDiv(F(2), width),
            ![Matrix4_set_m.m22] = FDiv(F(2), height),
            ![Matrix4_set_m.m33] = FDiv(F(-2), depth),
            ![Matrix4_set_m.m14] = FDiv(FNeg(FAdd(right, left)), width),
            ![Matrix4_set_m.m24] = FDiv(FNeg(FAdd(top, bottom)), height),
            ![Matrix4_set_m.m34] = FDiv(FNeg(FAdd(far, near)), depth)])))

\* the coordinates of the planes of the box
Extents == {F(-1), F(1), F(3)}

\* Matrix4::ortho(left, right, top, bottom, near, far)
Ortho ==
    /\ ~Constructed
    /\ ty = "Matrix4"
    /\ \E left \in Extents, right \in Extents, top \in Extents,
          bottom \in Extents, near \in Extents, far \in Extents :
          /\ m' = Matrix4_ortho(left, right, top, bottom, near, far)
          /\ ctor' = [op |-> "ortho",
                      arg |-> <<left, right, top, bottom, near, far>>]
    /\ UNCHANGED <<ty, hist, out>>

NextOrtho == Ortho \/ MatIsValid \/ GetM

SpecOrtho == Init /\ [][NextOrtho]_vars

\* one of the three extents of the box of the ortho call is zero
DegenerateOrtho ==
    \/ ctor.arg[1] = ctor.arg[2]
    \/ ctor.arg[3] = ctor.arg[4]
    \/ ctor.arg[5] = ctor.arg[6]

(***************************************************************************)
(* C27: ortho performs no validation: when near == far (or left == right,  *)
(* or top == bottom) it still returns a matrix and signals no failure, and *)
(* the returned matrix contains a non-finite element, so is_valid() on it  *)
(* is false; for non-degenerate extents the result differs from identity   *)
(* only in m11, m22, m33, m14, m24, m34.                                   *)
(***************************************************************************)
C27_OrthoUnvalidated ==
    ctor.op = "ortho" =>
        IF DegenerateOrtho
        THEN /\ Len(m) = 16
             /\ \E i \in 1..16 : ~IsFinite(m[i])
             /\ out.op = "is_valid" => out.ret = FALSE
        ELSE \A r, c \in 1..4 :
                 <<r, c>> \notin {<<1, 1>>, <<2, 2>>, <<3, 3>>,
                                  <<1, 4>>, <<2, 4>>, <<3, 4>>} =>
                     At(ty, m, r, c) = At(ty, Matrix4_new, r, c)

\* ortho was called with near == far and the other extents not zero, and
\* is_valid() was asked of the result
C27_Witness ==
    /\ ctor.op = "ortho"
    /\ ctor.arg[5] = ctor.arg[6]
    /\ ctor.arg[1] # ctor.arg[2] /\ ctor.arg[3] # ctor.arg[4]
    /\ out.op = "is_valid" /\ out.ret = FALSE

(***************************************************************************)
(* Matrix4::translate and Matrix4::scale                                   *)
(***************************************************************************)
Matrix4_translate(x, y, z) ==
    [Matrix4_new EXCEPT
        ![Matrix4_set_m.m14] = x,
        ![Matrix4_set_m.m24] = y,
        ![Matrix4_set_m.m34] = z]

\* Matrix4::scale, but the z factor is taken from y
Matrix4_scale_uniform(x, y, z) ==
    [Matrix4_new EXCEPT
        ![Matrix4_set_m.m11] = x,
        ![Matrix4_set_m.m22] = y,
        ![Matrix4_set_m.m33] = y]

Matrix4_scale(x, y, z) ==
    [Matrix4_new EXCEPT
        ![Matrix4_set_m.m11] = x,
        ![Matrix4_set_m.m22] = y,
        ![Matrix4_set_m.m33] = z]

\* the amounts to translate or scale by
Amounts == {F(0), F(2), F(-3), PosInf, NaN}

\* Matrix4::translate(x, y, z)
Translate ==
    /\ ~Constructed
    /\ ty = "Matrix4"
    /\ \E x \in Amounts, y \in Amounts, z \in Amounts :
          /\ m' = Matrix4_translate(x, y, z)
          /\ ctor' = [op |-> "translate", arg |-> <<x, y, z>>]
    /\ UNCHANGED <<ty, hist, out>>

\* Matrix4::scale(x, y, z)
Scale ==
    /\ ~Constructed
    /\ ty = "Matrix4"
    /\ \E x \in Amounts, y \in Amounts, z \in Amounts :
          /\ m' = Matrix4_scale(x, y, z)
          /\ ctor' = [op |-> "scale", arg |-> <<x, y, z>>]
    /\ UNCHANGED <<ty, hist, out>>

NextAffine == Translate \/ Scale \/ TransformPointAffine \/ GetM

SpecAffine == Init /\ [][NextAffine]_vars

\* the elements of the matrix outside the places given are the identity's
IdentityOutside(places) ==
    \A r, c \in 1..4 :
        <<r, c>> \notin places => At(ty, m, r, c) = At(ty, Matrix4_new, r, c)

\* the point p moved by the amounts of the translate call
Translated(p) ==
    Vector3_make(FAdd(p.x, ctor.arg[1]), FAdd(p.y, ctor.arg[2]),
                 FAdd(p.z, ctor.arg[3]))

\* the point p scaled by the amounts of the scale call
Scaled(p) ==
    Vector3_make(FMul(p.x, ctor.arg[1]), FMul(p.y, ctor.arg[2]),
                 FMul(p.z, ctor.arg[3]))

(***************************************************************************)
(* C28 as stated: for every Vector3 p and every (x, y, z),                 *)
(* translate(x,y,z).transform_point(p) = (p.x + x, p.y + y, p.z + z) and   *)
(* scale(x,y,z).transform_point(p) = (p.x*x, p.y*y, p.z*z); translate      *)
(* differs from identity only in m14, m24, m34 and scale only in m11, m22, *)
(* m33.  Fails: an infinite component of p multiplied by a zero element of *)
(* the matrix is NaN and spoils the other components.                      *)
(***************************************************************************)
C28_TranslateScale ==
    /\ ctor.op = "translate" =>
          /\ IdentityOutside({<<1, 4>>, <<2, 4>>, <<3, 4>>})
          /\ out.op = "transform_point_affine" => out.ret = Translated(out.arg)
    /\ ctor.op = "scale" =>
          /\ IdentityOutside({<<1, 1>>, <<2, 2>>, <<3, 3>>})
          /\ out.op = "transform_point_affine" => out.ret = Scaled(out.arg)

(***************************************************************************)
(* C28 amended: the same, for every Vector3 p with finite components (the  *)
(* amounts x, y, z may be anything; a NaN on the right-hand side is a NaN  *)
(* in the result).                                                         *)
(***************************************************************************)
C28_TranslateScaleFinite ==
    /\ ctor.op = "translate" =>
          /\ IdentityOutside({<<1, 4>>, <<2, 4>>, <<3, 4>>})
          /\ (out.op = "transform_point_affine" /\ Finite3(out.arg)) =>
                 out.ret = Translated(out.arg)
    /\ ctor.op = "scale" =>
          /\ IdentityOutside({<<1, 1>>, <<2, 2>>, <<3, 3>>})
          /\ (out.op = "transform_point_affine" /\ Finite3(out.arg)) =>
                 out.ret = Scaled(out.arg)

\* translate(2, -3, 0) moved the point (1, 2, 3) to (3, -1, 3)
C28_Witness ==
    /\ ctor.op = "translate"
    /\ ctor.arg = <<F(2), F(-3), F(0)>>
    /\ out.op = "transform_point_affine"
    /\ out.arg = Vector3_make(F(1), F(2), F(3))
    /\ out.ret = Vector3_make(F(3), F(-1), F(3))

(***************************************************************************)
(* clamp: the interval, what is kept, idempotence                          *)
(***************************************************************************)
\* lo <= x <= hi as f32 comparisons (false when one of the three is NaN)
Within(lo, x, hi) ==
    /\ ~IsNaN(lo) /\ ~IsNaN(x) /\ ~IsNaN(hi)
    /\ ~FLt(x, lo)
    /\ ~FLt(hi, x)

\* the k-th call is a clamp, and its component i lies between the bounds
\* after the call
ClampedInto(k, i) ==
    Within(FMin(hist[k].arg[1][Field(i)], hist[k].arg[2][Field(i)]),
           After(k)[Field(i)],
           FMax(hist[k].arg[1][Field(i)], hist[k].arg[2][Field(i)]))

\* component i lay between the bounds of the k-th call before the call
InsideBefore(k, i) ==
    Within(FMin(hist[k].arg[1][Field(i)], hist[k].arg[2][Field(i)]),
           hist[k].pre[Field(i)],
           FMax(hist[k].arg[1][Field(i)], hist[k].arg[2][Field(i)]))

\* both bounds of the k-th call are NaN in component i
BothNaN(k, i) ==
    IsNaN(hist[k].arg[1][Field(i)]) /\ IsNaN(hist[k].arg[2][Field(i)])

\* what C29 says of the components left inside the interval and of a
\* second clamp with the same bounds
ClampKeeps(k) ==
    /\ \A i \in 0..(Size(ty) - 1) :
          InsideBefore(k, i) => After(k)[Field(i)] = hist[k].pre[Field(i)]
    /\ (k < Len(hist) /\ hist[k + 1].op = "clamp"
            /\ hist[k + 1].arg = hist[k].arg) => After(k + 1) = After(k)

(***************************************************************************)
(* C29 as stated: after v.clamp(a, b) every component v_i satisfies        *)
(* min(a_i, b_i) <= v_i <= max(a_i, b_i); a component that already lay     *)
(* inside that interval is unchanged; and clamping again with the same     *)
(* bounds changes nothing.  Fails when a_i and b_i are both NaN: the       *)
(* bounds of the interval are NaN and v_i is left as it was.               *)
(***************************************************************************)
C29_ClampInterval ==
    \A k \in 1..Len(hist) :
        hist[k].op = "clamp" =>
            /\ \A i \in 0..(Size(ty) - 1) : ClampedInto(k, i)
            /\ ClampKeeps(k)

(***************************************************************************)
(* C29 amended: after v.clamp(a, b) every component v_i for which a_i and  *)
(* b_i are not both NaN satisfies min(a_i, b_i) <= v_i <= max(a_i, b_i),   *)
(* min and max being those of f32 (the other argument when one is NaN); a  *)
(* component that already lay inside that interval is unchanged; and       *)
(* clamping again with the same bounds changes nothing.                    *)
(***************************************************************************)
C29_ClampIntervalNoNaN ==
    \A k \in 1..Len(hist) :
        hist[k].op = "clamp" =>
            /\ \A i \in 0..(Size(ty) - 1) :
                  ~BothNaN(k, i) => ClampedInto(k, i)
            /\ ClampKeeps(k)

\* a Vector4 with a component above, one below and one inside the interval
\* was clamped, and clamped again between the same bounds
C29_Witness ==
    /\ ty = "Vector4"
    /\ Len(hist) = 2
    /\ hist[1].op = "clamp" /\ hist[2].op = "clamp"
    /\ hist[2].arg = hist[1].arg
    /\ ~BothNaN(1, 0) /\ ~BothNaN(1, 1) /\ ~BothNaN(1, 2) /\ ~BothNaN(1, 3)
    /\ FLt(After(1).x, hist[1].pre.x)
    /\ FLt(hist[1].pre.y, After(1).y)
    /\ InsideBefore(1, 2)
    /\ After(2) = After(1)

(***************************************************************************)
(* The two generations of the matrix types                                 *)
(***************************************************************************)
\* determinant, inverse, transpose, the product and transform_point, on a
\* base matrix of either generation
\* The exact arithmetic of the model is that of 32-bit integers, which an
\* inverse of a product, or a product of inverses, leaves: a matrix is
\* inverted or multiplied, not both.
Called(op) == \E k \in 1..Len(hist) : hist[k].op = op

NextGenerations ==
    \/ MakeBase \/ Determinant \/ Transpose
    \/ TransformPoint \/ TransformPointAffine
    \/ (Inverse /\ ~Called("mul"))
    \/ (Mul /\ ~Called("inverse"))

SpecGenerations == Init /\ [][NextGenerations]_vars

\* the type of the same size in the other generation
Other(t) ==
    CASE t = "Matrix2" -> "Mat2"
      [] t = "Mat2"    -> "Matrix2"
      [] t = "Matrix3" -> "Mat3"
      [] t = "Mat3"    -> "Matrix3"
      [] t = "Matrix4" -> "Mat4"
      [] t = "Mat4"    -> "Matrix4"

\* the k-th call left the array, and returned the value, that the same call
\* of the other generation gives on the same array
SameCall(k) ==
    CASE hist[k].op = "inverse" ->
             /\ inverse(Other(ty), hist[k].pre).ret = hist[k].ret
             /\ inverse(Other(ty), hist[k].pre).m = After(k)
      [] hist[k].op = "transpose" ->
             transpose(Other(ty), hist[k].pre) = After(k)
      [] hist[k].op = "mul" ->
             mul(Other(ty), hist[k].pre, hist[k].arg) = After(k)
      [] OTHER -> TRUE

\* the query just answered has the answer of the other generation
SameQuery ==
    /\ out.op = "determinant" => determinant(Other(ty), m) = out.ret
    /\ out.op = "transform_point" =>
           transform_point(Other(ty), m, out.arg) = out.ret
    /\ out.op = "transform_point_affine" =>
           transform_point_affine(Other(ty), m, out.arg) = out.ret

(***************************************************************************)
(* C30: the two generations of the matrix types are observationally        *)
(* equivalent on their shared operations: for every input, Mat4 and        *)
(* Matrix4 (likewise Mat3/Matrix3 and Mat2/Matrix2) produce identical      *)
(* element values for determinant, inverse (same boolean result and same   *)
(* resulting elements), transpose, matrix product and transform_point.     *)
(* (Mat2 has no transform_point; Matrix2's is not a shared operation.)     *)
(***************************************************************************)
C30_GenerationsAgree ==
    /\ \A k \in 1..Len(hist) : SameCall(k)
    /\ ty \notin {"Matrix2", "Mat2"} => SameQuery
    /\ ty \in {"Matrix2", "Mat2"} =>
           (out.op = "determinant" => determinant(Other(ty), m) = out.ret)

\* a Mat4 was inverted and transposed, both changing it, and asked to
\* transform a Vec3
C30_Witness ==
    /\ ty = "Mat4"
    /\ Len(hist) = 2
    /\ hist[1].op = "inverse" /\ hist[1].ret = TRUE
    /\ hist[2].op = "transpose" /\ m # hist[2].pre
    /\ out.op = "transform_point_affine"
    /\ Finite3(out.ret)

=============================================================================
